---- MODULE Spec2Model ----
(***************************************************************************)
(* A model of the stream operators of foreveraloneT/trx: the stages Map    *)
(* and Filter with their execution pool (inline, unordered, ordered),      *)
(* Take, the buffering stages BufferWithCount, BufferWithTime and          *)
(* BufferWithTimeOrCount, and the creation operators Range and Timer.      *)
(* One stage runs per behaviour: a main goroutine pulls from `source`, the *)
(* pool's goroutines run the submitted tasks, and a consumer reads the     *)
(* stage's output channel until it is closed.  Time is a discrete clock.   *)
(***************************************************************************)
EXTENDS Integers, Sequences, FiniteSets, TLC

\* ------------------------------------------------------------------ bounds
\* Longest source sequence handed to a stage.
MaxLen == 3
\* Largest pool size (WithPoolSize) tried.
MaxPoolSize == 2
\* Largest output buffer capacity (WithBufferSize) tried.
MaxBufferSize == 1
\* Largest limit n handed to Take.
MaxTake == 3

VARIABLES
    stage,        \* the operator that runs: "Map", "Filter", "Take", ...
    conf,         \* config: [bufferSize, poolSize, serialize]
    n,            \* Take's limit n; the count of Range, BufferWithCount and
                  \* BufferWithTimeOrCount; BufferWithTime's maxSize
    start,        \* Range's start
    buffer,       \* buffering stages: the batch under accumulation
    d,            \* buffering stages: the ticker's period
    now,          \* the clock
    timer,        \* buffering stages: the ticker, [next, pending]
    timers,       \* the Timer stages that run side by side
    panicked,     \* "no"; "caught" once the pool has recovered a task's panic;
                  \* "crashed" once a panic has left a goroutine unrecovered
    cancelAt,     \* the clock's reading when the cancellation handle fired
    consumer,     \* who reads the stage's output: a reader until close, or a
                  \* downstream Take, [mode, n, count, sent, closed]
    opts,         \* parseOption: the options not yet applied
    source,       \* the elements the upstream delivers, in order
    srcCloses,    \* whether the upstream closes its channel after them
    pulled,       \* how many elements the stage has received from source
    ctxDone,      \* the cancellation handle has fired (ctx.Done() is closed)
    pc,           \* the main goroutine's position
    i,            \* Map/Filter: the loop's index counter
    count,        \* Take: the loop's counter
    cur,          \* the element the main goroutine holds (pulled, not yet handed on)
    tasks,        \* the tasks submitted to the pool, in submission order
    queue,        \* ordered pool: the callback queue (task ids, submission order)
    cbk,          \* ordered pool: the task the callbacker holds, 0 when none
    out,          \* the output channel's buffer
    outClosed,    \* close(out) has run
    received,     \* what the consumer has read from out, in order
    sendOnClosed, \* some goroutine has sent on out after close(out)
    calls         \* the user callback's invocations so far

vars == <<start, buffer, d, now, timer, timers, panicked, cancelAt, consumer, opts, stage, conf, n, source, srcCloses, pulled, ctxDone, pc, i, count, cur,
          tasks, queue, cbk, out, outClosed, received, sendOnClosed, calls>>

\* what only the timed stages change
timeVars == <<d, now, timer, timers>>

\* ------------------------------------------------------------ trx.Result
\* errors are strings; "nil" is Go's nil error
Ok(v) == [v |-> v, err |-> "nil"]

\* the zero value of T stands in Result.v
Err(e) == [v |-> 0, err |-> e]

IsOk(r) == r.err = "nil"

IsErr(r) == r.err # "nil"

\* ------------------------------------------------- the inputs of a run
\* Success payloads, one for each way a stage's callback treats a value: the
\* mapper below returns a value or fails; the predicate keeps, drops or fails.
Values(st) == IF st = "Map" THEN {2, 3} ELSE {1, 2, 3}

Elements(st) == {Ok(v) : v \in Values(st)} \cup {Err("source error")}

Sources(st) == UNION {[1..len -> Elements(st)] : len \in 0..MaxLen}

\* The mapper used by the runs: fails on the value 3, as the test's does,
\* and otherwise returns a value that shows both of its arguments.
mapper(value, index) ==
    IF value = 3 THEN Err("mapper error") ELSE Ok(10 * value + index)

\* The predicate used by the runs: fails on 3, keeps the even values.
predicate(value, index) ==
    IF value = 3 THEN [ok |-> FALSE, err |-> "predicate error"]
    ELSE [ok |-> value % 2 = 0, err |-> "nil"]

\* ------------------------------------------------------------ the pool
\* newPool that forgets the serialize option
newPool_unordered(size, serialize) ==
    IF size <= 1 THEN "inline" ELSE "pool"

\* a newPool that lets the serialize option choose the stream at every size
newPool_serializeForcesStream(size, serialize) ==
    IF serialize THEN "stream"
    ELSE IF size <= 1 THEN "inline"
    ELSE "pool"

\* newPool: which of the three strategies a configuration selects
newPool(size, serialize) ==
    IF size <= 1 THEN "inline"
    ELSE IF ~serialize THEN "pool"
    ELSE "stream"

makePool == newPool(conf.poolSize, conf.serialize)

\* Map's task swallowing a source Failure instead of forwarding it
MapTask_dropsFailure(result, index) ==
    IF IsErr(result) THEN [emits |-> FALSE, res |-> Err(result.err), called |-> FALSE]
    ELSE LET m == mapper(result.v, index) IN
         IF IsErr(m) THEN [emits |-> TRUE, res |-> Err(m.err), called |-> TRUE]
         ELSE [emits |-> TRUE, res |-> Ok(m.v), called |-> TRUE]

\* A task's outcome: whether it sends, what it sends, whether it called the
\* user callback.  Map's task: the closure handed to pool.submit.
MapTask(result, index) ==
    IF IsErr(result) THEN [emits |-> TRUE, res |-> Err(result.err), called |-> FALSE]
    ELSE LET m == mapper(result.v, index) IN
         IF IsErr(m) THEN [emits |-> TRUE, res |-> Err(m.err), called |-> TRUE]
         ELSE [emits |-> TRUE, res |-> Ok(m.v), called |-> TRUE]

\* Filter's task with the test of the predicate's result inverted
FilterTask_inverted(result, index) ==
    IF IsErr(result) THEN [emits |-> TRUE, res |-> Err(result.err), called |-> FALSE]
    ELSE LET p == predicate(result.v, index) IN
         IF p.err # "nil" THEN [emits |-> TRUE, res |-> Err(p.err), called |-> TRUE]
         ELSE IF ~p.ok THEN [emits |-> TRUE, res |-> Ok(result.v), called |-> TRUE]
         ELSE [emits |-> FALSE, res |-> Ok(result.v), called |-> TRUE]

\* Filter's task keeping every Success, whatever the predicate says
FilterTask_keepsAll(result, index) ==
    IF IsErr(result) THEN [emits |-> TRUE, res |-> Err(result.err), called |-> FALSE]
    ELSE LET p == predicate(result.v, index) IN
         IF p.err # "nil" THEN [emits |-> TRUE, res |-> Err(p.err), called |-> TRUE]
         ELSE [emits |-> TRUE, res |-> Ok(result.v), called |-> TRUE]

\* Filter's task
FilterTask(result, index) ==
    IF IsErr(result) THEN [emits |-> TRUE, res |-> Err(result.err), called |-> FALSE]
    ELSE LET p == predicate(result.v, index) IN
         IF p.err # "nil" THEN [emits |-> TRUE, res |-> Err(p.err), called |-> TRUE]
         ELSE IF p.ok THEN [emits |-> TRUE, res |-> Ok(result.v), called |-> TRUE]
         ELSE [emits |-> FALSE, res |-> Ok(result.v), called |-> TRUE]

TaskOutcome(result, index) ==
    IF stage = "Map" THEN MapTask(result, index) ELSE FilterTask(result, index)

\* ------------------------------------------------- the output channel
\* makeResultChannel: make(chan trx.Result[T], c.bufferSize)
makeResultChannel == conf.bufferSize

\* What travels on out: a Result, with the position of the source element it
\* comes from (the position is bookkeeping for the properties; no code reads it).
Item(res, pos) == [res |-> res, pos |-> pos]

\* the consumer of the runs in which nothing is said about it:
\* `for result := range out`
ReadsAll == [mode |-> "reads", n |-> 0, count |-> 0, sent |-> <<>>, closed |-> FALSE]

\* what a downstream Take holds: received from out and not yet sent on
InHand == Len(received) - Len(consumer.sent)

\* The consumer is at a receive from out: always, when it reads until close;
\* a downstream Take, in the select of `for count < n`.
Reading ==
    \/ consumer.mode = "reads"
    \/ /\ consumer.mode = "take"
       /\ ~consumer.closed
       /\ consumer.count < consumer.n
       /\ InHand = 0

\* `out <- x` on the open channel: into the buffer when it has room; with no
\* buffer, straight to the consumer, when it is at its receive.
Send(x) ==
    IF makeResultChannel = 0
    THEN Reading /\ received' = Append(received, x) /\ UNCHANGED out
    ELSE /\ Len(out) < makeResultChannel
         /\ out' = Append(out, x)
         /\ UNCHANGED received

\* `out <- x` by a goroutine of the pool: the channel may have been closed by
\* the main goroutine meanwhile, and a send on a closed channel panics.
SendOrPanic(x) ==
    IF outClosed
    THEN sendOnClosed' = TRUE /\ UNCHANGED <<out, received>>
    ELSE Send(x) /\ UNCHANGED sendOnClosed

\* the consumer: `for result := range out`
Recv ==
    /\ Reading
    /\ out # <<>>
    /\ received' = Append(received, Head(out))
    /\ out' = Tail(out)
    /\ UNCHANGED <<start, buffer, timeVars, panicked, cancelAt, consumer, opts, stage, conf, n, source, srcCloses, pulled, ctxDone, pc, i, count,
                   cur, tasks, queue, cbk, outClosed, sendOnClosed, calls>>

\* everything sent on out so far, in the order of the sends
delivered == received \o out

\* the cancellation handle fires (context.WithCancel's cancel, a deadline)
Cancel ==
    /\ ~ctxDone
    /\ pc # "done"
    /\ ctxDone' = TRUE
    /\ cancelAt' = now
    /\ UNCHANGED <<start, buffer, timeVars, panicked, consumer, opts, stage, conf, n, source, srcCloses, pulled, pc, i, count, cur,
                   tasks, queue, cbk, out, outClosed, received, sendOnClosed, calls>>

\* --------------------------------------------------------- pool: state
\* A worker goroutine is occupied by a task from the moment pool.Go hands it
\* over until the function given to Go returns.
Busy(t) == tasks[t].state \in {"run", "emit"}

NumBusy == Cardinality({t \in 1..Len(tasks) : Busy(t)})

\* a pool without a limit on its goroutines
WorkerFree_always == TRUE

\* WithMaxGoroutines(size): Go blocks while size workers are occupied
WorkerFree == NumBusy < conf.poolSize

\* stream.New().WithMaxGoroutines(size): the callback queue holds size+1 entries
QueueHasRoom == Len(queue) < conf.poolSize + 1

\* the call record the runs keep of the user callback
Called(t, o) ==
    IF o.called
    THEN calls \cup {[pos |-> t.pos, value |-> t.result.v, index |-> t.index]}
    ELSE calls

\* ------------------------------------------ Map / Filter: main goroutine
\* case <-ctx.Done(): return   (the deferred close(out) runs; pool.wait does not)
select_ctxDone ==
    /\ stage \in {"Map", "Filter"}
    /\ pc = "select"
    /\ ctxDone
    /\ pc' = "done"
    /\ outClosed' = TRUE
    /\ UNCHANGED <<start, buffer, timeVars, panicked, cancelAt, consumer, opts, stage, conf, n, source, srcCloses, pulled, ctxDone, i, count, cur,
                   tasks, queue, cbk, out, received, sendOnClosed, calls>>

\* case v, ok := <-source, ok: index := i; result := v
select_recv ==
    /\ stage \in {"Map", "Filter"}
    /\ pc = "select"
    /\ pulled < Len(source)
    /\ pulled' = pulled + 1
    /\ cur' = [pos |-> pulled + 1, index |-> i, result |-> source[pulled + 1]]
    /\ pc' = "submit"
    /\ UNCHANGED <<start, buffer, timeVars, panicked, cancelAt, consumer, opts, stage, conf, n, source, srcCloses, ctxDone, i, count,
                   tasks, queue, cbk, out, outClosed, received, sendOnClosed, calls>>

\* case v, ok := <-source, !ok: break LOOP
select_closed ==
    /\ stage \in {"Map", "Filter"}
    /\ pc = "select"
    /\ pulled = Len(source)
    /\ srcCloses
    /\ pc' = "wait"
    /\ UNCHANGED <<start, buffer, timeVars, panicked, cancelAt, consumer, opts, stage, conf, n, source, srcCloses, pulled, ctxDone, i, count, cur,
                   tasks, queue, cbk, out, outClosed, received, sendOnClosed, calls>>

\* an index that counts the Successes only
NextIndex_successesOnly == IF IsErr(source[pulled]) THEN i ELSE i + 1

\* the value the loop's i++ leaves in i
NextIndex == i + 1

\* The user callback of the runs panics on the value 4 (no source of the runs
\* without panics holds it).
Panics(value) == value = 4

\* the task of this element panics: its callback is called, and panics
TaskPanics(result) == IsOk(result) /\ Panics(result.v)

\* pool.submit, inline: the task runs on the caller.  Up to its send.
submit_inline ==
    /\ pc = "submit"
    /\ makePool = "inline"
    /\ ~TaskPanics(cur.result)
    /\ LET o == TaskOutcome(cur.result, cur.index) IN
       /\ calls' = Called(cur, o)
       /\ IF o.emits
          THEN /\ pc' = "send"
               /\ cur' = [cur EXCEPT !.result = o.res]
               /\ UNCHANGED i
          ELSE /\ pc' = "select"
               /\ i' = NextIndex
               /\ UNCHANGED cur
    /\ UNCHANGED <<start, buffer, timeVars, panicked, cancelAt, consumer, opts, stage, conf, n, source, srcCloses, pulled, ctxDone, count,
                   tasks, queue, cbk, out, outClosed, received, sendOnClosed>>

\* pool.submit, inline: the task's send, then i++
inline_send ==
    /\ stage \in {"Map", "Filter"}
    /\ pc = "send"
    /\ Send(Item(cur.result, cur.pos))
    /\ i' = NextIndex
    /\ pc' = "select"
    /\ UNCHANGED <<start, buffer, timeVars, panicked, cancelAt, consumer, opts, stage, conf, n, source, srcCloses, pulled, ctxDone, count, cur,
                   tasks, queue, cbk, outClosed, sendOnClosed, calls>>

\* a task as submitted: the closure's captured index and result; res is what
\* the task has computed to send, once it has run
NewTask(state) ==
    [pos |-> cur.pos, index |-> cur.index, result |-> cur.result,
     res |-> cur.result, state |-> state]

\* pool.submit, unordered: p.pool.Go(...) returns once a worker has the task
submit_pool ==
    /\ pc = "submit"
    /\ makePool = "pool"
    /\ WorkerFree
    /\ tasks' = Append(tasks, NewTask("run"))
    /\ i' = NextIndex
    /\ pc' = "select"
    /\ UNCHANGED <<start, buffer, timeVars, panicked, cancelAt, consumer, opts, stage, conf, n, source, srcCloses, pulled, ctxDone, count, cur,
                   queue, cbk, out, outClosed, received, sendOnClosed, calls>>

\* pool.submit, ordered: p.stream.Go first queues the task's callback channel
submit_stream_queue ==
    /\ pc = "submit"
    /\ makePool = "stream"
    /\ QueueHasRoom
    /\ tasks' = Append(tasks, NewTask("queued"))
    /\ queue' = Append(queue, Len(tasks) + 1)
    /\ pc' = "go"
    /\ UNCHANGED <<start, buffer, timeVars, panicked, cancelAt, consumer, opts, stage, conf, n, source, srcCloses, pulled, ctxDone, i, count, cur,
                   cbk, out, outClosed, received, sendOnClosed, calls>>

\* pool.submit, ordered: ... and then hands the task to a worker
submit_stream_go ==
    /\ pc = "go"
    /\ WorkerFree
    /\ tasks' = [tasks EXCEPT ![Len(tasks)].state = "run"]
    /\ i' = NextIndex
    /\ pc' = "select"
    /\ UNCHANGED <<start, buffer, timeVars, panicked, cancelAt, consumer, opts, stage, conf, n, source, srcCloses, pulled, ctxDone, count, cur,
                   queue, cbk, out, outClosed, received, sendOnClosed, calls>>

\* ------------------------------------------------ pool: its goroutines
\* Where the task's closure runs.  op.Map's pool (submit(fn func() callback))
\* runs fn on the worker and keeps only the returned send for the callbacker;
\* Filter's pool (submit(fn func())) hands the whole fn to the stream as the
\* callback, so in ordered mode it runs on the callbacker.
RunsOnWorker == makePool = "pool" \/ stage = "Map"

\* a worker runs the closure given to Go, up to the closure's send
worker_run ==
    \E t \in 1..Len(tasks) :
        /\ tasks[t].state = "run"
        /\ ~(RunsOnWorker /\ TaskPanics(tasks[t].result))
        /\ IF RunsOnWorker
           THEN LET o == TaskOutcome(tasks[t].result, tasks[t].index) IN
                /\ calls' = Called(tasks[t], o)
                /\ tasks' = [tasks EXCEPT
                       ![t].res = o.res,
                       ![t].state = IF makePool = "stream" THEN "ready"
                                    ELSE IF o.emits THEN "emit" ELSE "done"]
           ELSE /\ tasks' = [tasks EXCEPT ![t].state = "ready"]
                /\ UNCHANGED calls
        /\ UNCHANGED <<start, buffer, timeVars, panicked, cancelAt, consumer, opts, stage, conf, n, source, srcCloses, pulled, ctxDone, pc, i, count,
                       cur, queue, cbk, out, outClosed, received, sendOnClosed>>

\* unordered: the worker's send on out, after which the worker is free
worker_send ==
    \E t \in 1..Len(tasks) :
        /\ tasks[t].state = "emit"
        /\ SendOrPanic(Item(tasks[t].res, tasks[t].pos))
        /\ tasks' = [tasks EXCEPT ![t].state = IF outClosed THEN "panic" ELSE "done"]
        /\ UNCHANGED <<start, buffer, timeVars, panicked, cancelAt, consumer, opts, stage, conf, n, source, srcCloses, pulled, ctxDone, pc, i, count,
                       cur, queue, cbk, outClosed, calls>>

\* a callbacker that serves the newest entry first
NextCallback_newest == queue[Len(queue)]

\* the queue entry the callbacker takes next
NextCallback == Head(queue)

\* ordered: the callbacker takes the next task's channel from the queue
callbacker_take ==
    /\ cbk = 0
    /\ queue # <<>>
    /\ cbk' = NextCallback
    /\ queue' = SelectSeq(queue, LAMBDA t : t # NextCallback)
    /\ UNCHANGED <<start, buffer, timeVars, panicked, cancelAt, consumer, opts, stage, conf, n, source, srcCloses, pulled, ctxDone, pc, i, count,
                   cur, tasks, out, outClosed, received, sendOnClosed, calls>>

\* ordered: the callbacker receives the task's callback and runs it up to its send
callbacker_call ==
    /\ cbk # 0
    /\ tasks[cbk].state = "ready"
    /\ ~(~RunsOnWorker /\ TaskPanics(tasks[cbk].result))
    /\ IF RunsOnWorker
       THEN /\ tasks' = [tasks EXCEPT ![cbk].state = "cb"]
            /\ UNCHANGED <<calls, cbk>>
       ELSE LET o == TaskOutcome(tasks[cbk].result, tasks[cbk].index) IN
            /\ calls' = Called(tasks[cbk], o)
            /\ tasks' = [tasks EXCEPT
                   ![cbk].res = o.res,
                   ![cbk].state = IF o.emits THEN "cb" ELSE "done"]
            /\ cbk' = IF o.emits THEN cbk ELSE 0
    /\ UNCHANGED <<start, buffer, timeVars, panicked, cancelAt, consumer, opts, stage, conf, n, source, srcCloses, pulled, ctxDone, pc, i, count,
                   cur, queue, out, outClosed, received, sendOnClosed>>

\* ordered: the callback's send on out
callbacker_send ==
    /\ cbk # 0
    /\ tasks[cbk].state = "cb"
    /\ SendOrPanic(Item(tasks[cbk].res, tasks[cbk].pos))
    /\ tasks' = [tasks EXCEPT ![cbk].state = IF outClosed THEN "panic" ELSE "done"]
    /\ cbk' = 0
    /\ UNCHANGED <<start, buffer, timeVars, panicked, cancelAt, consumer, opts, stage, conf, n, source, srcCloses, pulled, ctxDone, pc, i, count,
                   cur, queue, outClosed, calls>>

\* a wait that returns without waiting
WaitReturns_atOnce == TRUE

\* a wait that never returns
WaitReturns_never == FALSE

\* an ordered wait that looks at the workers only, not at the callbacker
WaitReturns_ignoresCallbacks ==
    CASE makePool = "inline" -> TRUE
      [] makePool = "pool"   -> NumBusy = 0
      [] makePool = "stream" -> NumBusy = 0

\* pool.wait returns: inline at once; unordered when every worker has exited;
\* ordered when every worker has exited and the callbacker has emptied the queue
WaitReturns ==
    CASE makePool = "inline" -> TRUE
      [] makePool = "pool"   -> NumBusy = 0
      [] makePool = "stream" -> NumBusy = 0 /\ queue = <<>> /\ cbk = 0

\* pool.wait(), then the deferred close(out).  Wait of conc's pool and of its
\* stream raises again, in the goroutine that calls it, a panic caught from
\* a task; nothing in the stage recovers it, so the deferred close(out) runs
\* and the panic leaves the goroutine.
wait ==
    /\ pc = "wait"
    /\ WaitReturns
    /\ pc' = "done"
    /\ outClosed' = TRUE
    /\ panicked' = IF panicked = "caught" THEN "crashed" ELSE panicked
    /\ UNCHANGED <<start, buffer, timeVars, cancelAt, consumer, opts, stage, conf, n, source, srcCloses, pulled, ctxDone, i, count, cur,
                   tasks, queue, cbk, out, received, sendOnClosed, calls>>

\* --------------------------------------------------------------- Take
\* a loop condition that is off by one
UnderLimit_offByOne == count <= n

\* a loop condition that reads n <= 0 as no limit
UnderLimit_zeroIsUnlimited == n <= 0 \/ count < n

\* the loop condition of Take: for count < n
UnderLimit == count < n

\* the loop condition fails: the goroutine returns, the deferred close(out) runs
take_limit ==
    /\ stage = "Take"
    /\ pc = "select"
    /\ ~UnderLimit
    /\ pc' = "done"
    /\ outClosed' = TRUE
    /\ UNCHANGED <<start, buffer, timeVars, panicked, cancelAt, consumer, opts, stage, conf, n, source, srcCloses, pulled, ctxDone, i, count, cur,
                   tasks, queue, cbk, out, received, sendOnClosed, calls>>

\* case <-ctx.Done(): return
take_ctxDone ==
    /\ stage = "Take"
    /\ pc = "select"
    /\ UnderLimit
    /\ ctxDone
    /\ pc' = "done"
    /\ outClosed' = TRUE
    /\ UNCHANGED <<start, buffer, timeVars, panicked, cancelAt, consumer, opts, stage, conf, n, source, srcCloses, pulled, ctxDone, i, count, cur,
                   tasks, queue, cbk, out, received, sendOnClosed, calls>>

\* case v, ok := <-source, !ok: return
take_closed ==
    /\ stage = "Take"
    /\ pc = "select"
    /\ UnderLimit
    /\ pulled = Len(source)
    /\ srcCloses
    /\ pc' = "done"
    /\ outClosed' = TRUE
    /\ UNCHANGED <<start, buffer, timeVars, panicked, cancelAt, consumer, opts, stage, conf, n, source, srcCloses, pulled, ctxDone, i, count, cur,
                   tasks, queue, cbk, out, received, sendOnClosed, calls>>

\* case v, ok := <-source, ok: val, err := v.Get()
take_recv ==
    /\ stage = "Take"
    /\ pc = "select"
    /\ UnderLimit
    /\ pulled < Len(source)
    /\ pulled' = pulled + 1
    /\ cur' = [pos |-> pulled + 1, index |-> count, result |-> source[pulled + 1]]
    /\ pc' = "send"
    /\ UNCHANGED <<start, buffer, timeVars, panicked, cancelAt, consumer, opts, stage, conf, n, source, srcCloses, ctxDone, i, count,
                   tasks, queue, cbk, out, outClosed, received, sendOnClosed, calls>>

\* a Take that forwards a Failure and goes on
TakeContinues_always(result) == TRUE

\* whether Take's loop goes on after forwarding result
TakeContinues(result) == IsOk(result)

\* out <- trx.Err[T](err); return      or      out <- trx.Ok(val); count++
take_send ==
    /\ stage = "Take"
    /\ pc = "send"
    /\ Send(Item(IF IsErr(cur.result) THEN Err(cur.result.err) ELSE Ok(cur.result.v),
                 cur.pos))
    /\ IF TakeContinues(cur.result)
       THEN count' = count + 1 /\ pc' = "select" /\ UNCHANGED outClosed
       ELSE pc' = "done" /\ outClosed' = TRUE /\ UNCHANGED count
    /\ UNCHANGED <<start, buffer, timeVars, panicked, cancelAt, consumer, opts, stage, conf, n, source, srcCloses, pulled, ctxDone, i, cur,
                   tasks, queue, cbk, sendOnClosed, calls>>

\* ------------------------------------------------------ specifications
\* defaultConfig with WithBufferSize, WithPoolSize, WithSerialize applied
Configs ==
    [bufferSize : 0..MaxBufferSize, poolSize : 1..MaxPoolSize, serialize : BOOLEAN]

\* a stage that uses no clock
InitUntimed ==
    /\ d = 0
    /\ now = 0
    /\ timer = [next |-> 0, pending |-> FALSE]
    /\ timers = <<>>
    /\ panicked = "no"
    /\ consumer = ReadsAll
    /\ opts = <<>>
    /\ cancelAt = 0

InitCommon ==
    /\ source \in Sources(stage)
    /\ pulled = 0
    /\ ctxDone = FALSE
    /\ pc = "select"
    /\ i = 0
    /\ count = 0
    /\ cur = [pos |-> 0, index |-> 0, result |-> Ok(0)]
    /\ tasks = <<>>
    /\ queue = <<>>
    /\ cbk = 0
    /\ out = <<>>
    /\ outClosed = FALSE
    /\ received = <<>>
    /\ sendOnClosed = FALSE
    /\ calls = {}

\* Map or Filter started on a source
Init ==
    /\ stage \in {"Map", "Filter"}
    /\ conf \in Configs
    /\ n = 0
    /\ srcCloses = TRUE
    /\ start = 0
    /\ buffer = <<>>
    /\ InitUntimed
    /\ InitCommon

\* the steps of a run whose context is never cancelled (makeContext's default,
\* context.Background())
Next ==
    \/ select_recv
    \/ select_closed
    \/ submit_inline
    \/ inline_send
    \/ submit_pool
    \/ submit_stream_queue
    \/ submit_stream_go
    \/ worker_run
    \/ worker_send
    \/ callbacker_take
    \/ callbacker_call
    \/ callbacker_send
    \/ wait
    \/ Recv

Spec == Init /\ [][Next]_vars

\* the same stages given a context that may be cancelled at any moment
NextCtx ==
    \/ Next
    \/ select_ctxDone
    \/ Cancel

SpecCtx == Init /\ [][NextCtx]_vars

\* Take started on a source
InitTake ==
    /\ stage = "Take"
    /\ conf \in Configs
    /\ n \in 0..MaxTake
    /\ srcCloses \in BOOLEAN
    /\ start = 0
    /\ buffer = <<>>
    /\ InitUntimed
    /\ InitCommon
    /\ conf.poolSize = 1
    /\ ~conf.serialize

NextTake ==
    \/ take_limit
    \/ take_ctxDone
    \/ take_closed
    \/ take_recv
    \/ take_send
    \/ Recv
    \/ Cancel

SpecTake == InitTake /\ [][NextTake]_vars

\* ------------------------------------------- what the properties refer to
\* the Results of a sequence of items
Results(items) == [k \in 1..Len(items) |-> items[k].res]

\* the source positions of a sequence of items
Positions(items) == [k \in 1..Len(items) |-> items[k].pos]

\* how many of the items come from source position p
TimesDelivered(p) == Cardinality({k \in 1..Len(delivered) : delivered[k].pos = p})

Min(a, b) == IF a < b THEN a ELSE b

\* What Map owes for the source element at position p: its Failure, or the
\* mapper's result for its value and the index p - 1.
MapExpected(p) ==
    IF source[p].err # "nil" THEN Err(source[p].err) ELSE mapper(source[p].v, p - 1)

\* Whether Filter owes an output for position p, and which.
FilterDrops(p) ==
    /\ source[p].err = "nil"
    /\ predicate(source[p].v, p - 1).err = "nil"
    /\ ~predicate(source[p].v, p - 1).ok

FilterExpected(p) ==
    IF source[p].err # "nil" THEN source[p]
    ELSE IF predicate(source[p].v, p - 1).err # "nil"
         THEN Err(predicate(source[p].v, p - 1).err)
         ELSE source[p]

Owed(p) == IF stage = "Map" THEN TRUE ELSE ~FilterDrops(p)

Expected(p) == IF stage = "Map" THEN MapExpected(p) ELSE FilterExpected(p)

\* the positions 1..k for which an output is owed, in order
RECURSIVE OwedUpTo(_)
OwedUpTo(k) ==
    IF k = 0 THEN <<>>
    ELSE IF Owed(k) THEN Append(OwedUpTo(k - 1), k) ELSE OwedUpTo(k - 1)

IsPrefix(a, b) == Len(a) <= Len(b) /\ \A k \in 1..Len(a) : a[k] = b[k]

AllTasksDone == \A t \in 1..Len(tasks) : tasks[t].state = "done"

\* --------------------------------------------------------- properties

\* C1: op.Map with pool size N > 1 and the serialize option, not cancelled:
\* in every reachable state the k-th result sent on the output is the result
\* of the k-th element pulled from the source (its Failure, or the mapper's
\* result for its value and index k - 1).
C1_MapOrderedInSourceOrder ==
    (stage = "Map" /\ conf.poolSize > 1 /\ conf.serialize) =>
        \A k \in 1..Len(delivered) :
            /\ delivered[k].pos = k
            /\ delivered[k].res = MapExpected(k)

\* a result has been delivered while a later task has finished its mapper
\* before an earlier one
C1_Witness ==
    /\ stage = "Map" /\ conf.poolSize > 1 /\ conf.serialize
    /\ Len(delivered) >= 1
    /\ \E t1, t2 \in 1..Len(tasks) :
           t1 < t2 /\ tasks[t1].state = "run" /\ tasks[t2].state = "ready"

\* C2: when cancellation fires while Map or Filter has unfinished tasks, the
\* stage closes its output only after every submitted task has completed, and
\* no task of the pool ever sends on the closed output.
C2_CancelDrainsBeforeClose ==
    /\ (ctxDone /\ outClosed) => AllTasksDone
    /\ ~sendOnClosed

\* C3: Map and Filter with pool size N > 1 and no ordered option, not
\* cancelled: no source element has two outputs, every output is the result
\* owed for the element it comes from, and once the output is closed the
\* elements with an output are exactly those that owe one.
C3_UnorderedSameMultiset ==
    (conf.poolSize > 1 /\ ~conf.serialize) =>
        /\ \A p \in 1..Len(source) : TimesDelivered(p) <= 1
        /\ \A k \in 1..Len(delivered) :
               /\ delivered[k].pos \in 1..pulled
               /\ Owed(delivered[k].pos)
               /\ delivered[k].res = Expected(delivered[k].pos)
        /\ outClosed =>
               {delivered[k].pos : k \in 1..Len(delivered)}
                   = {p \in 1..Len(source) : Owed(p)}

\* Filter has closed its output having dropped an element and delivered two
\* others in the opposite of source order
C3_Witness ==
    /\ stage = "Filter" /\ conf.poolSize > 1 /\ ~conf.serialize
    /\ outClosed
    /\ \E p \in 1..Len(source) : FilterDrops(p)
    /\ \E k1, k2 \in 1..Len(delivered) :
           k1 < k2 /\ delivered[k1].pos > delivered[k2].pos

\* C4: Map and Filter, in every pool mode, not cancelled: the output closes
\* only when every source element has been pulled, and by then every element
\* that is a Failure or whose callback fails has exactly one output, the
\* Failure with its error; no element ever has more than one output.
C4_Resilient ==
    /\ \A p \in 1..Len(source) : TimesDelivered(p) <= 1
    /\ outClosed =>
           /\ pulled = Len(source)
           /\ \A p \in 1..Len(source) :
                  (source[p].err # "nil" \/ Expected(p).err # "nil") =>
                      \E k \in 1..Len(delivered) :
                          /\ delivered[k].pos = p
                          /\ delivered[k].res.err # "nil"
                          /\ delivered[k].res = Expected(p)
           /\ \A p \in 1..Len(source) : Owed(p) => TimesDelivered(p) = 1

\* the output is closed after a source Failure, then a failing callback, then
\* a Success whose result was delivered
C4_Witness ==
    /\ outClosed
    /\ Len(source) = 3
    /\ source[1].err # "nil"
    /\ source[2].err = "nil" /\ Expected(2).err # "nil"
    /\ source[3].err = "nil" /\ Expected(3).err = "nil" /\ Owed(3)
    /\ \E k \in 1..Len(delivered) :
           delivered[k].pos = 3 /\ delivered[k].res = Expected(3)

\* C5: Map, in every pool mode, not cancelled: whenever the output is closed
\* the source has been pulled to its end, no task is queued, running or
\* waiting to send, and every pulled element's result has been delivered.
C5_MapClosesAfterDrain ==
    (stage = "Map" /\ outClosed) =>
        /\ pulled = Len(source)
        /\ Len(tasks) = (IF makePool = "inline" THEN 0 ELSE pulled)
        /\ AllTasksDone
        /\ queue = <<>> /\ cbk = 0
        /\ pc = "done"
        /\ \A p \in 1..pulled : TimesDelivered(p) = 1

\* Map has closed its output after running at least two tasks on its workers
C5_Witness ==
    /\ stage = "Map" /\ conf.poolSize > 1
    /\ outClosed
    /\ Len(tasks) >= 2

\* C6: the index a mapper or predicate call receives is the number of
\* elements, Failures included, pulled before its element; every call is for
\* a Success of the source with its value; no index is used by two calls;
\* and every task carries the index of its pull, whatever order tasks run in.
C6_IndexIsPullOrder ==
    /\ \A c \in calls :
           /\ c.pos \in 1..pulled
           /\ c.index = c.pos - 1
           /\ source[c.pos].err = "nil"
           /\ c.value = source[c.pos].v
    /\ \A c1, c2 \in calls : c1.index = c2.index => c1 = c2
    /\ \A t \in 1..Len(tasks) : tasks[t].index = tasks[t].pos - 1

\* after a source Failure, the callback has run for a later element while an
\* earlier Success still waits for its own call
C6_Witness ==
    /\ Len(source) = 3
    /\ source[1].err # "nil"
    /\ \E t1, t2 \in 1..Len(tasks) :
           /\ t1 < t2
           /\ tasks[t1].state = "run" /\ tasks[t1].result.err = "nil"
           /\ \E c \in calls : c.pos = tasks[t2].pos /\ c.index = 2

\* C7: Filter with pool size 1: what has been sent is always a prefix of the
\* source with the Successes of a false predicate removed (a Success whose
\* predicate fails being replaced by that Failure), each kept element
\* unchanged; once the output is closed it is that whole sequence.
C7_FilterInline ==
    (stage = "Filter" /\ conf.poolSize = 1) =>
        /\ IsPrefix(Positions(delivered), OwedUpTo(Len(source)))
        /\ \A k \in 1..Len(delivered) :
               delivered[k].res = FilterExpected(delivered[k].pos)
        /\ \A k \in 1..Len(delivered) :
               predicate(source[delivered[k].pos].v, delivered[k].pos - 1).err = "nil"
                   => delivered[k].res = source[delivered[k].pos]
        /\ outClosed => Positions(delivered) = OwedUpTo(Len(source))

\* Filter with default pooling has closed its output after dropping one
\* Success and keeping another
C7_Witness ==
    /\ stage = "Filter" /\ conf.poolSize = 1
    /\ outClosed
    /\ \E p \in 1..Len(source) : FilterDrops(p)
    /\ \E k \in 1..Len(delivered) :
           delivered[k].res.err = "nil" /\ delivered[k].res = source[delivered[k].pos]

\* C8: Filter with pool size N > 1 and the serialize option: the outputs are
\* always in source order, each the result owed for its element, and once
\* the output is closed they are exactly the elements that pass.
C8_FilterOrdered ==
    (stage = "Filter" /\ conf.poolSize > 1 /\ conf.serialize) =>
        /\ \A k1, k2 \in 1..Len(delivered) :
               k1 < k2 => delivered[k1].pos < delivered[k2].pos
        /\ \A k \in 1..Len(delivered) :
               /\ Owed(delivered[k].pos)
               /\ delivered[k].res = FilterExpected(delivered[k].pos)
        /\ outClosed => Positions(delivered) = OwedUpTo(Len(source))

\* ordered Filter has closed its output with two elements kept around a
\* dropped one
C8_Witness ==
    /\ stage = "Filter" /\ conf.poolSize > 1 /\ conf.serialize
    /\ outClosed
    /\ Len(source) = 3
    /\ ~FilterDrops(1) /\ FilterDrops(2) /\ ~FilterDrops(3)
    /\ Len(delivered) = 2

\* the source holds no Failure
NoFailure == \A p \in 1..Len(source) : source[p].err = "nil"

\* C9: Take on a source without Failure, not cancelled: what has been sent is
\* the source's first elements, unchanged and in order, never more than n;
\* once n are sent Take is not waiting for the source; and once the output is
\* closed exactly min(n, |source|) have been sent.
C9_TakePrefix ==
    (NoFailure /\ ~ctxDone) =>
        /\ Len(delivered) <= n
        /\ \A k \in 1..Len(delivered) :
               delivered[k].pos = k /\ delivered[k].res = source[k]
        /\ Len(delivered) = n => (outClosed \/ (pc = "select" /\ ~UnderLimit))
        /\ outClosed => Len(delivered) = Min(n, Len(source))

\* Take has closed after n >= 1 elements on a longer source that never closes
C9_Witness ==
    /\ NoFailure /\ ~ctxDone
    /\ n >= 1 /\ n < Len(source) /\ ~srcCloses
    /\ outClosed
    /\ Len(delivered) = n

\* the (one-based) position of the source's first Failure, 0 when it has none
FirstFailure ==
    IF NoFailure THEN 0
    ELSE CHOOSE p \in 1..Len(source) :
             source[p].err # "nil" /\ \A q \in 1..(p - 1) : source[q].err = "nil"

\* C10: Take, not cancelled, on a source whose first Failure is at zero-based
\* position k < n: nothing after the Failure is pulled, what has been sent is
\* a prefix of the k Successes and the Failure, and once the output is closed
\* it is exactly those k + 1 elements.
C10_TakeShortCircuits ==
    (~NoFailure /\ FirstFailure - 1 < n /\ ~ctxDone) =>
        /\ pulled <= FirstFailure
        /\ Len(delivered) <= FirstFailure
        /\ \A k \in 1..Len(delivered) :
               delivered[k].pos = k /\ delivered[k].res = source[k]
        /\ outClosed => Len(delivered) = FirstFailure

\* Take has closed right after forwarding a Failure that follows a Success,
\* leaving the rest of the source unpulled
C10_Witness ==
    /\ ~NoFailure /\ ~ctxDone
    /\ FirstFailure >= 2 /\ FirstFailure < Len(source) /\ FirstFailure - 1 < n
    /\ outClosed
    /\ Len(delivered) = FirstFailure
    /\ delivered[FirstFailure].res.err # "nil"
    /\ pulled = FirstFailure

\* ================================================================ Range
\* ------------------------------------------------------------ Go's int
\* The width of int in the model (64 in the build): the arithmetic of the
\* loop wraps at this width as Go's does at its own.
IntBits == 4

MaxInt == 2^(IntBits - 1) - 1

MinInt == -(2^(IntBits - 1))

\* x + y on int: two's complement, silently wrapping
IntAdd(x, y) == ((x + y - MinInt) % (2^IntBits)) + MinInt

\* the loop condition `i < start+count`
RangeContinues == i < IntAdd(start, n)

\* `for ...; i < start+count; ...` is false: the goroutine returns and the
\* deferred close(out) runs
range_end ==
    /\ stage = "Range"
    /\ pc = "loop"
    /\ ~RangeContinues
    /\ pc' = "done"
    /\ outClosed' = TRUE
    /\ UNCHANGED <<start, buffer, timeVars, panicked, cancelAt, consumer, opts, stage, conf, n, source, srcCloses, pulled, ctxDone,
                   i, count, cur, tasks, queue, cbk, out, received, sendOnClosed, calls>>

\* `case <-ctx.Done(): return`
range_ctxDone ==
    /\ stage = "Range"
    /\ pc = "loop"
    /\ RangeContinues
    /\ ctxDone
    /\ pc' = "done"
    /\ outClosed' = TRUE
    /\ UNCHANGED <<start, buffer, timeVars, panicked, cancelAt, consumer, opts, stage, conf, n, source, srcCloses, pulled, ctxDone,
                   i, count, cur, tasks, queue, cbk, out, received, sendOnClosed, calls>>

\* a loop that goes on to the send without looking at ctx.Done()
range_default_unchecked ==
    /\ stage = "Range"
    /\ pc = "loop"
    /\ RangeContinues
    /\ pc' = "send"
    /\ UNCHANGED <<start, buffer, timeVars, panicked, cancelAt, consumer, opts, stage, conf, n, source, srcCloses, pulled, ctxDone,
                   i, count, cur, tasks, queue, cbk, out, outClosed, received, sendOnClosed,
                   calls>>

\* `default:` is taken when ctx.Done() is not ready; the goroutine is then
\* committed to `out <- trx.Ok(i)`
range_default ==
    /\ stage = "Range"
    /\ pc = "loop"
    /\ RangeContinues
    /\ ~ctxDone
    /\ pc' = "send"
    /\ UNCHANGED <<start, buffer, timeVars, panicked, cancelAt, consumer, opts, stage, conf, n, source, srcCloses, pulled, ctxDone,
                   i, count, cur, tasks, queue, cbk, out, outClosed, received, sendOnClosed,
                   calls>>

\* `out <- trx.Ok(i)`, then the loop's `i++`
range_send ==
    /\ stage = "Range"
    /\ pc = "send"
    /\ Send(Item(Ok(i), Len(delivered) + 1))
    /\ i' = IntAdd(i, 1)
    /\ pc' = "loop"
    /\ UNCHANGED <<start, buffer, timeVars, panicked, cancelAt, consumer, opts, stage, conf, n, source, srcCloses, pulled, ctxDone,
                   count, cur, tasks, queue, cbk, outClosed, sendOnClosed, calls>>

\* no pool is involved in the stages below
PlainConfigs == {c \in Configs : c.poolSize = 1 /\ ~c.serialize}

\* Range(start, count, options...) was called: `i := start`
InitRange ==
    /\ stage = "Range"
    /\ conf \in PlainConfigs
    /\ start \in MinInt..MaxInt
    /\ n \in 0..MaxLen
    /\ i = start
    /\ pc = "loop"
    /\ source = <<>>
    /\ srcCloses = TRUE
    /\ pulled = 0
    /\ ctxDone = FALSE
    /\ count = 0
    /\ cur = [pos |-> 0, index |-> 0, result |-> Ok(0)]
    /\ tasks = <<>>
    /\ queue = <<>>
    /\ cbk = 0
    /\ out = <<>>
    /\ outClosed = FALSE
    /\ received = <<>>
    /\ sendOnClosed = FALSE
    /\ calls = {}
    /\ buffer = <<>>
    /\ InitUntimed

NextRange ==
    \/ range_end
    \/ range_ctxDone
    \/ range_default
    \/ range_send
    \/ Recv
    \/ Cancel

SpecRange == InitRange /\ [][NextRange]_vars

\* what Range(start, n) is to emit: start, start+1, ..., start+n-1
RangeExpected == [k \in 1..n |-> Ok(start + k - 1)]

\* C11: with no cancellation and a consumer reading until close, Range(start, n)
\* emits exactly the n Successes start, start+1, ..., start+n-1 in that order
\* and then closes, for every start and every n >= 0; n = 0 gives an empty
\* stream that is closed at once.
C11_RangeEmitsCount ==
    (stage = "Range" /\ ~ctxDone) =>
        /\ IsPrefix(Results(delivered), RangeExpected)
        /\ outClosed => Results(delivered) = RangeExpected
        /\ (n = 0 /\ pc = "loop") => ENABLED range_end

\* the same restricted to the calls whose bound start+n is an int
RangeEmitsCountWithoutOverflow ==
    (start + n <= MaxInt) => C11_RangeEmitsCount

\* ====================================================== BufferWithCount
\* trx.Err[[]T](err): the zero value of []T, the nil slice, stands in Result.v
BatchErr(e) == [v |-> <<>>, err |-> e]

\* What a buffering stage sends: a Result holding a batch, with the number of
\* source elements pulled so far, what made the stage send it ("size",
\* "timer", "close" or "failure") and the clock's reading at the send (pos,
\* why and at are bookkeeping for the properties; no code reads them).
Emitted(res, why) == [res |-> res, pos |-> pulled, why |-> why, at |-> now]

\* the sources handed to BufferWithCount, and its counts
BufferSources == UNION {[1..len -> Elements("BufferWithCount")] : len \in 0..(MaxLen + 1)}

\* a stage that holds a batch back until it has more than count elements
BatchFull_late(b, limit) == Len(b) > limit

\* `len(buffer) >= count`
BatchFull(b, limit) == Len(b) >= limit

\* a stage that still flushes its batch after it has forwarded a Failure
AfterFailure_flushes == "final"

\* where the goroutine goes after `out <- trx.Err[[]T](err)`: `return`
AfterFailure == "done"

\* `case <-ctx.Done(): return`
bwc_ctxDone ==
    /\ stage = "BufferWithCount"
    /\ pc = "select"
    /\ ctxDone
    /\ pc' = "done"
    /\ outClosed' = TRUE
    /\ UNCHANGED <<start, buffer, timeVars, panicked, cancelAt, consumer, opts, stage, conf, n, source, srcCloses, pulled, ctxDone,
                   i, count, cur, tasks, queue, cbk, out, received, sendOnClosed, calls>>

\* `case v, ok := <-source: if !ok { break LOOP }`
bwc_closed ==
    /\ stage = "BufferWithCount"
    /\ pc = "select"
    /\ pulled = Len(source)
    /\ srcCloses
    /\ pc' = "final"
    /\ UNCHANGED <<start, buffer, timeVars, panicked, cancelAt, consumer, opts, stage, conf, n, source, srcCloses, pulled, ctxDone,
                   i, count, cur, tasks, queue, cbk, out, outClosed, received, sendOnClosed,
                   calls>>

\* `case v, ok := <-source:` with an element: a Failure is to be forwarded,
\* a value is appended and the batch is to be sent once it is full
bwc_recv ==
    /\ stage = "BufferWithCount"
    /\ pc = "select"
    /\ pulled < Len(source)
    /\ pulled' = pulled + 1
    /\ cur' = [pos |-> pulled + 1, index |-> 0, result |-> source[pulled + 1]]
    /\ IF IsErr(source[pulled + 1])
       THEN pc' = "sendErr" /\ UNCHANGED buffer
       ELSE /\ buffer' = Append(buffer, source[pulled + 1].v)
            /\ pc' = IF BatchFull(buffer', n) THEN "sendBatch" ELSE "select"
    /\ UNCHANGED <<start, timeVars, panicked, cancelAt, consumer, opts, stage, conf, n, source, srcCloses, ctxDone, i, count,
                   tasks, queue, cbk, out, outClosed, received, sendOnClosed, calls>>

\* `out <- trx.Err[[]T](err); return`
bwc_sendErr ==
    /\ stage = "BufferWithCount"
    /\ pc = "sendErr"
    /\ Send(Emitted(BatchErr(cur.result.err), "failure"))
    /\ pc' = AfterFailure
    /\ outClosed' = (AfterFailure = "done")
    /\ UNCHANGED <<start, buffer, timeVars, panicked, cancelAt, consumer, opts, stage, conf, n, source, srcCloses, pulled, ctxDone,
                   i, count, cur, tasks, queue, cbk, sendOnClosed, calls>>

\* `out <- trx.Ok(buffer); buffer = make([]T, 0, count)`
bwc_sendBatch ==
    /\ stage = "BufferWithCount"
    /\ pc = "sendBatch"
    /\ Send(Emitted(Ok(buffer), "size"))
    /\ buffer' = <<>>
    /\ pc' = "select"
    /\ UNCHANGED <<start, timeVars, panicked, cancelAt, consumer, opts, stage, conf, n, source, srcCloses, pulled, ctxDone,
                   i, count, cur, tasks, queue, cbk, outClosed, sendOnClosed, calls>>

\* after the loop: `if len(buffer) > 0 { out <- trx.Ok(buffer) }`, then the
\* deferred close(out)
bwc_final ==
    /\ stage = "BufferWithCount"
    /\ pc = "final"
    /\ IF Len(buffer) > 0
       THEN Send(Emitted(Ok(buffer), "close"))
       ELSE UNCHANGED <<out, received>>
    /\ pc' = "done"
    /\ outClosed' = TRUE
    /\ UNCHANGED <<start, buffer, timeVars, panicked, cancelAt, consumer, opts, stage, conf, n, source, srcCloses, pulled, ctxDone,
                   i, count, cur, tasks, queue, cbk, sendOnClosed, calls>>

\* BufferWithCount(source, count, options...) was called, count > 0
InitBufferWithCount ==
    /\ stage = "BufferWithCount"
    /\ conf \in PlainConfigs
    /\ n \in 1..(MaxLen + 1)
    /\ source \in BufferSources
    /\ srcCloses = TRUE
    /\ buffer = <<>>
    /\ pc = "select"
    /\ pulled = 0
    /\ ctxDone = FALSE
    /\ start = 0
    /\ i = 0
    /\ count = 0
    /\ cur = [pos |-> 0, index |-> 0, result |-> Ok(0)]
    /\ tasks = <<>>
    /\ queue = <<>>
    /\ cbk = 0
    /\ out = <<>>
    /\ outClosed = FALSE
    /\ received = <<>>
    /\ sendOnClosed = FALSE
    /\ calls = {}
    /\ InitUntimed

NextBufferWithCount ==
    \/ bwc_ctxDone
    \/ bwc_closed
    \/ bwc_recv
    \/ bwc_sendErr
    \/ bwc_sendBatch
    \/ bwc_final
    \/ Recv
    \/ Cancel

SpecBufferWithCount == InitBufferWithCount /\ [][NextBufferWithCount]_vars

\* the batches of a sequence of emitted items, concatenated
RECURSIVE Flatten(_)
Flatten(items) ==
    IF items = <<>> THEN <<>>
    ELSE Flatten(SubSeq(items, 1, Len(items) - 1)) \o items[Len(items)].res.v

\* the values of the first k source elements
SourceValues(k) == [p \in 1..k |-> source[p].v]

\* ceil(a / b)
CeilDiv(a, b) == (a + b - 1) \div b

\* C12: BufferWithCount(source, k), k > 0, not cancelled, on a source of m
\* Successes and no Failure: every output is a non-empty batch, the batches
\* are the source's values in order, every batch has exactly k elements
\* except a shorter one that is the last output and is sent only after the
\* source has closed; once the output is closed there are exactly ceil(m/k)
\* batches, the last of m mod k elements (k when k divides m), none when
\* m = 0.
C12_BufferWithCountBatches ==
    (stage = "BufferWithCount" /\ ~ctxDone /\ NoFailure) =>
        /\ \A j \in 1..Len(delivered) :
               /\ IsOk(delivered[j].res)
               /\ Len(delivered[j].res.v) >= 1
               /\ \/ Len(delivered[j].res.v) = n
                  \/ /\ Len(delivered[j].res.v) < n
                     /\ j = Len(delivered)
                     /\ pc = "done"
                     /\ delivered[j].pos = Len(source)
        /\ IsPrefix(Flatten(delivered), SourceValues(Len(source)))
        /\ outClosed =>
               /\ Len(delivered) = CeilDiv(Len(source), n)
               /\ Flatten(delivered) = SourceValues(Len(source))
               /\ Len(source) > 0 =>
                      Len(delivered[Len(delivered)].res.v) =
                          IF Len(source) % n = 0 THEN n ELSE Len(source) % n

\* a run has ended with a full batch followed by a shorter last one
C12_Witness ==
    /\ stage = "BufferWithCount" /\ ~ctxDone /\ NoFailure
    /\ outClosed
    /\ Len(delivered) >= 2
    /\ Len(delivered[Len(delivered)].res.v) < n

\* C13: BufferWithCount, not cancelled, on a source whose first Failure is at
\* position f: nothing after the Failure is pulled; what is sent before the
\* Failure is the full batches of the f - 1 Successes before it, in order;
\* the partial batch is never sent; the Failure is the last output and the
\* output closes right after it.  So 3 Successes then a Failure with k > 3
\* give the Failure as the only output.
C13_BufferWithCountAborts ==
    (stage = "BufferWithCount" /\ ~ctxDone /\ ~NoFailure) =>
        /\ pulled <= FirstFailure
        /\ \A j \in 1..Len(delivered) :
               IF IsOk(delivered[j].res)
               THEN /\ Len(delivered[j].res.v) = n
                    /\ delivered[j].pos = j * n
                    /\ delivered[j].res.v = [x \in 1..n |-> source[(j - 1) * n + x].v]
               ELSE /\ j = Len(delivered)
                    /\ j = ((FirstFailure - 1) \div n) + 1
                    /\ delivered[j].res = BatchErr(source[FirstFailure].err)
                    /\ pc = "done"
        /\ pc = "sendErr" => Len(delivered) = (FirstFailure - 1) \div n
        /\ outClosed <=> (pc = "done")
        /\ outClosed =>
               /\ Len(delivered) = ((FirstFailure - 1) \div n) + 1
               /\ IsErr(delivered[Len(delivered)].res)

\* 3 Successes then a Failure with k > 3: the run has ended and the
\* Failure is the only output
C13_Witness ==
    /\ stage = "BufferWithCount" /\ ~ctxDone
    /\ FirstFailure = 4
    /\ n > 3
    /\ outClosed
    /\ Len(buffer) = 3
    /\ Len(delivered) = 1
    /\ IsErr(delivered[1].res)

\* ================================== BufferWithTime, BufferWithTimeOrCount
\* The clock counts in units; a period d is a number of units.  Time passes
\* between any two steps of a goroutine (clock_tick below), so a source
\* element may arrive, and a goroutine may come to run, at any moment.

\* longest ticker period tried
MaxD == 2
\* the clock's last reading
MaxTime == 4

\* what a timed buffering stage never changes
bufferFixed == <<start, d, timers, panicked, cancelAt, consumer, opts, stage, conf, n, source, srcCloses, i, count,
                 tasks, queue, cbk, sendOnClosed, calls>>

\* time.NewTicker(d): the first tick is due d from now, none is waiting
NewTicker(period) == [next |-> now + period, pending |-> FALSE]

\* a Reset that leaves the ticker as it is
TickerReset_keepsPhase(t, period) == t

\* timer.Reset(d): the next tick is due d from now; a tick that was waiting
\* in timer.C is discarded (timer channels are synchronous since Go 1.23,
\* the oldest version the module supports)
TickerReset(t, period) == [next |-> now + period, pending |-> FALSE]

\* a ticker whose period grows by one unit at every tick
TickerFires_drifting(t, period) == [next |-> t.next + period + 1, pending |-> TRUE]

\* the ticker's due time is reached: a tick waits in timer.C (one at most; a
\* tick that finds another one waiting is dropped), the next is due a period
\* later
TickerFires(t, period) == [next |-> t.next + period, pending |-> TRUE]

\* a unit of time passes, while the stage's goroutine is alive (the deferred
\* timer.Stop() ends the ticker)
clock_tick ==
    /\ stage \in {"BufferWithTime", "BufferWithTimeOrCount"}
    /\ pc # "done"
    /\ now < MaxTime
    /\ now' = now + 1
    /\ timer' = IF now + 1 = timer.next THEN TickerFires(timer, d) ELSE timer
    /\ UNCHANGED <<bufferFixed, buffer, pulled, ctxDone, pc, cur, out, outClosed, received>>

\* a stage that sends its batch at every tick, empty or not
TimerFlushes_always(b) == TRUE

\* `case <-timer.C: if len(buffer) > 0`
TimerFlushes(b) == Len(b) > 0

\* a size limit that lets the batch grow one element beyond it
SizeReached_late(b, limit) == limit > 0 /\ Len(b) > limit

\* `maxSize > 0 && len(buffer) >= maxSize`, `count > 0 && len(buffer) >= count`
SizeReached(b, limit) == limit > 0 /\ Len(b) >= limit

\* a stage that drops what is left in the batch when the source closes
FinalFlushes_never(b) == FALSE

\* after the loop: `if len(buffer) > 0`
FinalFlushes(b) == Len(b) > 0

\* a stage that goes on with its loop after forwarding a Failure
AbortTo_loop == "select"

\* where the goroutine goes after `out <- trx.Err[[]T](err)`: `return`
AbortTo == "done"

\* ------------------------------------------------------- BufferWithTime
\* `case <-ctx.Done(): return`
BwtCtxDone ==
    /\ pc = "select"
    /\ ctxDone
    /\ pc' = "done"
    /\ outClosed' = TRUE
    /\ UNCHANGED <<bufferFixed, buffer, now, timer, pulled, ctxDone, cur, out, received>>

\* `case <-timer.C:` takes the waiting tick; a non-empty batch is to be sent
BwtTick ==
    /\ pc = "select"
    /\ timer.pending
    /\ timer' = [timer EXCEPT !.pending = FALSE]
    /\ pc' = IF TimerFlushes(buffer) THEN "sendTimer" ELSE "select"
    /\ UNCHANGED <<bufferFixed, buffer, now, pulled, ctxDone, cur, out, outClosed, received>>

\* a timer case that empties the batch without handing it on
BwtSendTimer_withoutSend ==
    /\ pc = "sendTimer"
    /\ buffer' = <<>>
    /\ pc' = "select"
    /\ UNCHANGED <<bufferFixed, now, timer, pulled, ctxDone, cur, outClosed, out, received>>

\* `out <- trx.Ok(buffer); buffer = make([]T, 0)` of the timer case
BwtSendTimer ==
    /\ pc = "sendTimer"
    /\ Send(Emitted(Ok(buffer), "timer"))
    /\ buffer' = <<>>
    /\ pc' = "select"
    /\ UNCHANGED <<bufferFixed, now, timer, pulled, ctxDone, cur, outClosed>>

\* `case v, ok := <-source: if !ok { break LOOP }`
BwtClosed ==
    /\ pc = "select"
    /\ pulled = Len(source)
    /\ srcCloses
    /\ pc' = "final"
    /\ UNCHANGED <<bufferFixed, buffer, now, timer, pulled, ctxDone, cur, out, outClosed,
                   received>>

\* `case v, ok := <-source:` with an element: a Failure is to be forwarded,
\* a value is appended and the batch is to be sent if it has reached maxSize
BwtRecv ==
    /\ pc = "select"
    /\ pulled < Len(source)
    /\ pulled' = pulled + 1
    /\ cur' = [pos |-> pulled + 1, index |-> 0, result |-> source[pulled + 1]]
    /\ IF IsErr(source[pulled + 1])
       THEN pc' = "sendErr" /\ UNCHANGED buffer
       ELSE /\ buffer' = Append(buffer, source[pulled + 1].v)
            /\ pc' = IF SizeReached(buffer', n) THEN "sendSize" ELSE "select"
    /\ UNCHANGED <<bufferFixed, now, timer, ctxDone, out, outClosed, received>>

\* `out <- trx.Err[[]T](err); return`
BwtSendErr ==
    /\ pc = "sendErr"
    /\ Send(Emitted(BatchErr(cur.result.err), "failure"))
    /\ pc' = AbortTo
    /\ outClosed' = (AbortTo = "done")
    /\ UNCHANGED <<bufferFixed, buffer, now, timer, pulled, ctxDone, cur>>

\* `out <- trx.Ok(buffer); buffer = make([]T, 0); timer.Reset(d)`
BwtSendSize ==
    /\ pc = "sendSize"
    /\ Send(Emitted(Ok(buffer), "size"))
    /\ buffer' = <<>>
    /\ timer' = TickerReset(timer, d)
    /\ pc' = "select"
    /\ UNCHANGED <<bufferFixed, now, pulled, ctxDone, cur, outClosed>>

\* after the loop: `if len(buffer) > 0 { out <- trx.Ok(buffer) }`, then the
\* deferred timer.Stop() and close(out)
BwtFinal ==
    /\ pc = "final"
    /\ IF FinalFlushes(buffer)
       THEN Send(Emitted(Ok(buffer), "close"))
       ELSE UNCHANGED <<out, received>>
    /\ pc' = "done"
    /\ outClosed' = TRUE
    /\ UNCHANGED <<bufferFixed, buffer, now, timer, pulled, ctxDone, cur>>

bwt_ctxDone == stage = "BufferWithTime" /\ BwtCtxDone

bwt_tick == stage = "BufferWithTime" /\ BwtTick

bwt_sendTimer == stage = "BufferWithTime" /\ BwtSendTimer

bwt_closed == stage = "BufferWithTime" /\ BwtClosed

bwt_recv == stage = "BufferWithTime" /\ BwtRecv

bwt_sendErr == stage = "BufferWithTime" /\ BwtSendErr

bwt_sendSize == stage = "BufferWithTime" /\ BwtSendSize

bwt_final == stage = "BufferWithTime" /\ BwtFinal

\* a cancellation branch that hands the collected values on before it returns
BtcCtxDone_flushes ==
    /\ pc = "select"
    /\ ctxDone
    /\ IF Len(buffer) > 0
       THEN Send(Emitted(Ok(buffer), "cancel"))
       ELSE UNCHANGED <<out, received>>
    /\ pc' = "done"
    /\ outClosed' = TRUE
    /\ UNCHANGED <<bufferFixed, buffer, now, timer, pulled, ctxDone, cur>>

\* ------------------------------------------------ BufferWithTimeOrCount
\* `case <-ctx.Done(): return`
BtcCtxDone ==
    /\ pc = "select"
    /\ ctxDone
    /\ pc' = "done"
    /\ outClosed' = TRUE
    /\ UNCHANGED <<bufferFixed, buffer, now, timer, pulled, ctxDone, cur, out, received>>

\* `case <-timer.C:` takes the waiting tick; a non-empty batch is to be sent
BtcTick ==
    /\ pc = "select"
    /\ timer.pending
    /\ timer' = [timer EXCEPT !.pending = FALSE]
    /\ pc' = IF TimerFlushes(buffer) THEN "sendTimer" ELSE "select"
    /\ UNCHANGED <<bufferFixed, buffer, now, pulled, ctxDone, cur, out, outClosed, received>>

\* `out <- trx.Ok(buffer); buffer = make([]T, 0)` of the timer case
BtcSendTimer ==
    /\ pc = "sendTimer"
    /\ Send(Emitted(Ok(buffer), "timer"))
    /\ buffer' = <<>>
    /\ pc' = "select"
    /\ UNCHANGED <<bufferFixed, now, timer, pulled, ctxDone, cur, outClosed>>

\* `case v, ok := <-source: if !ok { break LOOP }`
BtcClosed ==
    /\ pc = "select"
    /\ pulled = Len(source)
    /\ srcCloses
    /\ pc' = "final"
    /\ UNCHANGED <<bufferFixed, buffer, now, timer, pulled, ctxDone, cur, out, outClosed,
                   received>>

\* `case v, ok := <-source:` with an element: a Failure is to be forwarded,
\* a value is appended and the batch is to be sent if it has reached count
BtcRecv ==
    /\ pc = "select"
    /\ pulled < Len(source)
    /\ pulled' = pulled + 1
    /\ cur' = [pos |-> pulled + 1, index |-> 0, result |-> source[pulled + 1]]
    /\ IF IsErr(source[pulled + 1])
       THEN pc' = "sendErr" /\ UNCHANGED buffer
       ELSE /\ buffer' = Append(buffer, source[pulled + 1].v)
            /\ pc' = IF SizeReached(buffer', n) THEN "sendSize" ELSE "select"
    /\ UNCHANGED <<bufferFixed, now, timer, ctxDone, out, outClosed, received>>

\* `out <- trx.Err[[]T](err); return`
BtcSendErr ==
    /\ pc = "sendErr"
    /\ Send(Emitted(BatchErr(cur.result.err), "failure"))
    /\ pc' = AbortTo
    /\ outClosed' = (AbortTo = "done")
    /\ UNCHANGED <<bufferFixed, buffer, now, timer, pulled, ctxDone, cur>>

\* a count-triggered flush that restarts the ticker as BufferWithTime's does
AfterCountFlush_resets(t) == TickerReset(t, d)

\* the ticker after the count-triggered flush: the code does not touch it
AfterCountFlush(t) == t

\* `out <- trx.Ok(buffer); buffer = make([]T, 0)`, and no timer.Reset
BtcSendSize ==
    /\ pc = "sendSize"
    /\ Send(Emitted(Ok(buffer), "size"))
    /\ buffer' = <<>>
    /\ timer' = AfterCountFlush(timer)
    /\ pc' = "select"
    /\ UNCHANGED <<bufferFixed, now, pulled, ctxDone, cur, outClosed>>

\* after the loop: `if len(buffer) > 0 { out <- trx.Ok(buffer) }`, then the
\* deferred timer.Stop() and close(out)
BtcFinal ==
    /\ pc = "final"
    /\ IF FinalFlushes(buffer)
       THEN Send(Emitted(Ok(buffer), "close"))
       ELSE UNCHANGED <<out, received>>
    /\ pc' = "done"
    /\ outClosed' = TRUE
    /\ UNCHANGED <<bufferFixed, buffer, now, timer, pulled, ctxDone, cur>>

btc_ctxDone == stage = "BufferWithTimeOrCount" /\ BtcCtxDone

btc_tick == stage = "BufferWithTimeOrCount" /\ BtcTick

btc_sendTimer == stage = "BufferWithTimeOrCount" /\ BtcSendTimer

btc_closed == stage = "BufferWithTimeOrCount" /\ BtcClosed

btc_recv == stage = "BufferWithTimeOrCount" /\ BtcRecv

btc_sendErr == stage = "BufferWithTimeOrCount" /\ BtcSendErr

btc_sendSize == stage = "BufferWithTimeOrCount" /\ BtcSendSize

btc_final == stage = "BufferWithTimeOrCount" /\ BtcFinal

\* ------------------------------------------------------ specifications
\* the sources handed to the timed stages: the p-th element is the Success p
\* or a Failure, so that every value tells its place in the source
TimedSources ==
    UNION {{[p \in 1..len |-> IF p \in failing THEN Err("source error") ELSE Ok(p)] :
               failing \in SUBSET (1..len)} : len \in 0..MaxLen}

\* BufferWithTime(source, d, maxSize, options...) or
\* BufferWithTimeOrCount(source, d, count, options...) was called:
\* `buffer := make([]T, 0)`, `timer := time.NewTicker(d)`
InitTimed ==
    /\ stage \in {"BufferWithTime", "BufferWithTimeOrCount"}
    /\ conf \in PlainConfigs
    /\ n \in 0..(MaxLen - 1)
    /\ d \in 1..MaxD
    /\ source \in TimedSources
    /\ srcCloses = TRUE
    /\ buffer = <<>>
    /\ now = 0
    /\ timer = NewTicker(d)
    /\ timers = <<>>
    /\ pc = "select"
    /\ pulled = 0
    /\ ctxDone = FALSE
    /\ start = 0
    /\ i = 0
    /\ count = 0
    /\ cur = [pos |-> 0, index |-> 0, result |-> Ok(0)]
    /\ tasks = <<>>
    /\ queue = <<>>
    /\ cbk = 0
    /\ out = <<>>
    /\ outClosed = FALSE
    /\ received = <<>>
    /\ sendOnClosed = FALSE
    /\ calls = {}
    /\ panicked = "no"
    /\ consumer = ReadsAll
    /\ opts = <<>>
    /\ cancelAt = 0

\* the steps of a run whose context is never cancelled
NextTimed ==
    \/ clock_tick
    \/ bwt_tick
    \/ bwt_sendTimer
    \/ bwt_closed
    \/ bwt_recv
    \/ bwt_sendErr
    \/ bwt_sendSize
    \/ bwt_final
    \/ btc_tick
    \/ btc_sendTimer
    \/ btc_closed
    \/ btc_recv
    \/ btc_sendErr
    \/ btc_sendSize
    \/ btc_final
    \/ Recv

SpecTimed == InitTimed /\ [][NextTimed]_vars

\* the same stages given a context that may be cancelled at any moment
NextTimedCtx ==
    \/ NextTimed
    \/ bwt_ctxDone
    \/ btc_ctxDone
    \/ Cancel

SpecTimedCtx == InitTimed /\ [][NextTimedCtx]_vars

\* -------------------------------------------- properties of the timed stages
Timed == stage \in {"BufferWithTime", "BufferWithTimeOrCount"}

\* the places in delivered of the batches sent for the given reason
SentFor(why) == {j \in 1..Len(delivered) : delivered[j].why = why}

\* the greatest element of a non-empty set of numbers
Max(S) == CHOOSE x \in S : \A y \in S : y <= x

\* C14: BufferWithTime with maxSize > 0: a batch that reaches maxSize is sent
\* before the loop selects again (the loop never waits with a full batch), and
\* the send resets the ticker: from then on the next tick is due no earlier
\* than d after that send and at the send's phase, no tick from before the
\* send is left waiting, and every timer-triggered batch that follows a
\* size-triggered one is sent no earlier than d after it.
C14_SizeFlushResetsTimer ==
    (stage = "BufferWithTime" /\ n > 0) =>
        /\ pc = "select" => Len(buffer) < n
        /\ pc = "sendSize" => Len(buffer) = n
        /\ \A j \in SentFor("size") :
               /\ Len(delivered[j].res.v) = n
               /\ timer.next >= delivered[j].at + d
               /\ timer.pending => now >= delivered[j].at + d
               /\ \A k \in SentFor("timer") :
                      j < k => delivered[k].at >= delivered[j].at + d
        /\ SentFor("size") # {} =>
               (timer.next - delivered[Max(SentFor("size"))].at) % d = 0

\* a timer-triggered batch has followed a size-triggered one, at a moment
\* that is not a multiple of d from the stage's start
C14_Witness ==
    /\ stage = "BufferWithTime" /\ n > 0
    /\ \E j \in SentFor("size") : \E k \in SentFor("timer") :
           /\ j < k
           /\ delivered[k].at % d # 0

\* the effect on batch, position and output that both stages' size-triggered
\* sends have
SizeFlushEffect ==
    /\ delivered' = Append(delivered, Emitted(Ok(buffer), "size"))
    /\ buffer' = <<>>
    /\ pc' = "select"
    /\ UNCHANGED <<bufferFixed, now, pulled, ctxDone, cur, outClosed>>

\* a step of one of the two stages is a step of the other, the ticker after
\* the size-triggered send excepted
SameButReset ==
    /\ BtcCtxDone <=> BwtCtxDone
    /\ BtcTick <=> BwtTick
    /\ BtcSendTimer <=> BwtSendTimer
    /\ BtcClosed <=> BwtClosed
    /\ BtcRecv <=> BwtRecv
    /\ BtcSendErr <=> BwtSendErr
    /\ BtcFinal <=> BwtFinal
    /\ BtcSendSize => (SizeFlushEffect /\ timer' = timer)
    /\ BwtSendSize => (SizeFlushEffect /\ timer' = [next |-> now + d, pending |-> FALSE])
    /\ (pc = "sendSize" /\ SizeFlushEffect /\ timer' = timer) => BtcSendSize
    /\ (pc = "sendSize" /\ SizeFlushEffect /\ timer' = [next |-> now + d, pending |-> FALSE])
           => BwtSendSize

\* C15: in BufferWithTimeOrCount the ticker stays at its original phase
\* whatever is flushed: the next tick is always due at the first multiple of d
\* (counted from the stage's start) after the present moment; and but for the
\* ticker after a size-triggered send, every step of BufferWithTimeOrCount is
\* a step of BufferWithTime with the same d and size from the same state, and
\* the other way round.
C15_CountFlushKeepsPhase ==
    /\ [](stage = "BufferWithTimeOrCount" => timer.next = d * ((now \div d) + 1))
    /\ [][Timed => SameButReset]_vars

\* a timer-triggered flush of a non-empty batch has followed a count-triggered
\* flush after less than d
C15_Witness ==
    /\ stage = "BufferWithTimeOrCount"
    /\ \E j \in SentFor("size") : \E k \in SentFor("timer") :
           /\ k = j + 1
           /\ delivered[k].at - delivered[j].at < d
           /\ Len(delivered[k].res.v) > 0

\* the loop takes the tick that waits in timer.C
TickTaken == pc = "select" /\ timer.pending /\ ~timer'.pending

\* the send of the timer case completes
TimerFlushDone == pc = "sendTimer" /\ pc' # "sendTimer"

\* C16: in both timed stages, taking a tick with an empty batch sends nothing
\* and leaves the loop selecting; taking it with a non-empty batch commits the
\* loop to send exactly that batch, after which the batch is empty; neither
\* changes when the ticker is due next; no timer-triggered output is empty.
\* In BufferWithTime with maxSize = 0 every batch is sent for a tick, or
\* after the source has closed.
C16_TimerFlushIffNonEmpty ==
    /\ [][(Timed /\ TickTaken) =>
            /\ timer'.next = timer.next
            /\ delivered' = delivered
            /\ buffer' = buffer
            /\ pc' = IF buffer = <<>> THEN "select" ELSE "sendTimer"]_vars
    /\ [][(Timed /\ TimerFlushDone) =>
            /\ buffer # <<>>
            /\ delivered' = Append(delivered, Emitted(Ok(buffer), "timer"))
            /\ buffer' = <<>>
            /\ timer' = timer
            /\ pc' = "select"]_vars
    /\ [](Timed => \A k \in SentFor("timer") :
              IsOk(delivered[k].res) /\ Len(delivered[k].res.v) > 0)
    /\ []((stage = "BufferWithTime" /\ n = 0) =>
              \A k \in 1..Len(delivered) :
                  \/ delivered[k].why = "timer"
                  \/ delivered[k].why = "failure"
                  \/ delivered[k].why = "close" /\ k = Len(delivered) /\ pc = "done")

\* BufferWithTime with maxSize = 0 has sent one batch for the first tick, and
\* has since taken the second tick with an empty batch, sending nothing
C16_Witness ==
    /\ stage = "BufferWithTime" /\ n = 0
    /\ pc = "select"
    /\ now >= 2 * d
    /\ ~timer.pending
    /\ buffer = <<>>
    /\ Len(delivered) = 1
    /\ delivered[1].why = "timer"
    /\ delivered[1].at < 2 * d
    /\ delivered[1].pos = pulled

\* C17: in both timed stages, on a source without Failure and without
\* cancellation: when the output is closed, a batch that was non-empty at the
\* source's close is the last output, and with an empty batch nothing was
\* sent for the close; the outputs are then the source's values, in order.
C17_FinalBatchOnClose ==
    (Timed /\ ~ctxDone /\ NoFailure) =>
        /\ pc = "final" => pulled = Len(source)
        /\ outClosed =>
               /\ IF buffer # <<>>
                  THEN /\ delivered # <<>>
                       /\ delivered[Len(delivered)].res = Ok(buffer)
                       /\ delivered[Len(delivered)].why = "close"
                  ELSE SentFor("close") = {}
               /\ Flatten(delivered) = SourceValues(Len(source))
        /\ ~outClosed => SentFor("close") = {}

\* a run has ended with a batch sent earlier and a final batch sent for the
\* source's close
C17_Witness ==
    /\ Timed /\ ~ctxDone /\ NoFailure
    /\ outClosed
    /\ buffer # <<>>
    /\ Len(delivered) >= 2
    /\ delivered[Len(delivered)].why = "close"

\* C18: in both timed stages, not cancelled, on a source whose first Failure
\* is at position f: nothing after the Failure is pulled; once it is pulled
\* the stage only forwards it and ends; every batch was sent before the
\* Failure was pulled; the Failure is the last output and the output closes
\* right after it; the values of the partial batch are in no output.
C18_TimedAbortOnFailure ==
    (Timed /\ ~ctxDone /\ ~NoFailure) =>
        /\ pulled <= FirstFailure
        /\ pulled = FirstFailure => pc \in {"sendErr", "done"}
        /\ outClosed <=> (pc = "done")
        /\ \A j \in 1..Len(delivered) :
               IF IsOk(delivered[j].res)
               THEN delivered[j].pos < FirstFailure
               ELSE /\ j = Len(delivered)
                    /\ delivered[j].res = BatchErr(source[FirstFailure].err)
                    /\ pc = "done"
        /\ pulled = FirstFailure =>
               Flatten(SubSeq(delivered, 1, Cardinality(SentFor("timer") \cup SentFor("size"))))
                   \o buffer = SourceValues(FirstFailure - 1)
        /\ outClosed =>
               /\ delivered # <<>>
               /\ IsErr(delivered[Len(delivered)].res)
               /\ SentFor("close") = {}

\* a run has ended on a Failure with a partial batch left unsent, after the
\* ticker's first tick was due
C18_Witness ==
    /\ Timed /\ ~ctxDone
    /\ outClosed
    /\ buffer # <<>>
    /\ now >= d
    /\ IsErr(delivered[Len(delivered)].res)

\* C19: in both timed stages with a size limit n > 0: every batch sent has at
\* least 1 and at most n elements; and as long as no batch has been sent for
\* a tick, every batch but the last output has exactly n elements.
C19_BatchSizeBounded ==
    (Timed /\ n > 0) =>
        /\ \A j \in 1..Len(delivered) :
               IsOk(delivered[j].res) =>
                   /\ Len(delivered[j].res.v) >= 1
                   /\ Len(delivered[j].res.v) <= n
        /\ SentFor("timer") = {} =>
               \A j \in 1..(Len(delivered) - 1) :
                   IsOk(delivered[j].res) /\ Len(delivered[j].res.v) = n

\* a batch of n elements has been followed by a shorter one sent for a tick
C19_Witness ==
    /\ Timed /\ n > 0
    /\ \E j \in SentFor("size") : \E k \in SentFor("timer") :
           /\ j < k
           /\ Len(delivered[j].res.v) = n
           /\ Len(delivered[k].res.v) < n

\* ================================================================ Timer
\* Two Timer stages are started at the same moment, the clock's 0, each with
\* its own goroutine and its own output channel; a consumer reads both
\* channels until they are closed, and `received` lists what it has read
\* from either, in order.  Timer calls prepareResources without its options:
\* its channel is unbuffered and its context is context.Background(), whose
\* Done() is never ready, so the select's first case is never taken.

\* the Timers of a run
TimerIds == {1, 2}

\* what a Timer emits: its Result, with the Timer it comes from and the
\* clock's reading at the send (bookkeeping for the properties)
TimerItem(t) == [res |-> Ok(0), pos |-> t, why |-> "timer", at |-> now]

\* a time.After whose channel is ready one unit early
AfterReady_early(t) == now + 1 >= timers[t].d

\* `<-time.After(d)` is ready: d has passed since the call
AfterReady(t) == now >= timers[t].d

\* `case <-time.After(d):` the goroutine takes the timer's value and is
\* committed to `out <- trx.Ok(0)`
timer_after(t) ==
    /\ timers[t].pc = "select"
    /\ AfterReady(t)
    /\ timers' = [timers EXCEPT ![t].pc = "send"]
    /\ UNCHANGED <<start, buffer, d, now, timer, panicked, cancelAt, consumer, opts, stage, conf, n, source, srcCloses, pulled,
                   ctxDone, pc, i, count, cur, tasks, queue, cbk, out, outClosed, received,
                   sendOnClosed, calls>>

\* `out <- trx.Ok(0)` meets the consumer's receive; the goroutine returns and
\* the deferred close(out) runs
timer_send(t) ==
    /\ timers[t].pc = "send"
    /\ received' = Append(received, TimerItem(t))
    /\ timers' = [timers EXCEPT ![t].pc = "done", ![t].closed = TRUE]
    /\ UNCHANGED <<start, buffer, d, now, timer, panicked, cancelAt, consumer, opts, stage, conf, n, source, srcCloses, pulled,
                   ctxDone, pc, i, count, cur, tasks, queue, cbk, out, outClosed,
                   sendOnClosed, calls>>

\* a unit of time passes
timer_clock ==
    /\ stage = "Timer"
    /\ now < MaxTime
    /\ now' = now + 1
    /\ UNCHANGED <<start, buffer, d, timer, timers, panicked, cancelAt, consumer, opts, stage, conf, n, source, srcCloses, pulled,
                   ctxDone, pc, i, count, cur, tasks, queue, cbk, out, outClosed, received,
                   sendOnClosed, calls>>

\* Timer(d1) and Timer(d2) were called at the clock's 0
InitTimer ==
    /\ stage = "Timer"
    /\ timers \in [TimerIds -> [d : 0..MaxD, pc : {"select"}, closed : {FALSE}]]
    /\ now = 0
    /\ d = 0
    /\ timer = [next |-> 0, pending |-> FALSE]
    /\ conf = [bufferSize |-> 0, poolSize |-> 1, serialize |-> FALSE]
    /\ n = 0
    /\ start = 0
    /\ buffer = <<>>
    /\ source = <<>>
    /\ srcCloses = TRUE
    /\ pulled = 0
    /\ ctxDone = FALSE
    /\ pc = "select"
    /\ i = 0
    /\ count = 0
    /\ cur = [pos |-> 0, index |-> 0, result |-> Ok(0)]
    /\ tasks = <<>>
    /\ queue = <<>>
    /\ cbk = 0
    /\ out = <<>>
    /\ outClosed = FALSE
    /\ received = <<>>
    /\ sendOnClosed = FALSE
    /\ calls = {}
    /\ panicked = "no"
    /\ consumer = ReadsAll
    /\ opts = <<>>
    /\ cancelAt = 0

NextTimer ==
    \/ \E t \in TimerIds : timer_after(t)
    \/ \E t \in TimerIds : timer_send(t)
    \/ timer_clock

SpecTimer == InitTimer /\ [][NextTimer]_vars

\* the places in received of what Timer t has emitted
EmittedBy(t) == {k \in 1..Len(received) : received[k].pos = t}

\* each Timer by itself: at most one output, a Success with value 0, sent no
\* earlier than d after the start; the output is closed exactly when the
\* goroutine has returned, and then the one output has been sent
TimerEmitsOnce ==
    \A t \in TimerIds :
        /\ Cardinality(EmittedBy(t)) <= 1
        /\ \A k \in EmittedBy(t) :
               /\ received[k].res = Ok(0)
               /\ received[k].at >= timers[t].d
        /\ timers[t].pc = "send" => now >= timers[t].d
        /\ timers[t].closed <=> (timers[t].pc = "done")
        /\ timers[t].closed <=> (Cardinality(EmittedBy(t)) = 1)

\* C20 as stated: each Timer emits exactly one Success 0, no earlier than d
\* after its start, and then closes; and of two Timers started together with
\* d1 < d2, the one with d1 emits first: when the one with d2 has emitted,
\* the one with d1 has emitted before it.
C20_ShorterTimerFirst ==
    stage = "Timer" =>
        /\ TimerEmitsOnce
        /\ \A t1, t2 \in TimerIds :
               (timers[t1].d < timers[t2].d) =>
                   \A k2 \in EmittedBy(t2) : \E k1 \in EmittedBy(t1) : k1 < k2

\* C20, amended: each Timer emits exactly one Success 0, no earlier than d
\* after its start, and then closes; of two Timers started together with
\* d1 < d2, the one with d1 is ready to emit before the other (whenever the
\* d2 Timer is past its wait, d1 has passed too), the d2 Timer never emits
\* before d2, and so the d1 Timer is the first to emit whenever it emits
\* before d2 has passed: if the d2 Timer has emitted first, the d1 Timer's
\* output comes d2 or more after the start.
C20_TimerEmitsOnceAfterD ==
    stage = "Timer" =>
        /\ TimerEmitsOnce
        /\ \A t1, t2 \in TimerIds :
               (timers[t1].d < timers[t2].d) =>
                   /\ timers[t2].pc # "select" => now > timers[t1].d
                   /\ \A k1 \in EmittedBy(t1) :
                          received[k1].at < timers[t2].d =>
                              \A k2 \in EmittedBy(t2) : k1 < k2
                   /\ \A k2 \in EmittedBy(t2) :
                          /\ received[k2].at >= timers[t2].d
                          /\ \A k1 \in EmittedBy(t1) :
                                 k2 < k1 => received[k1].at >= timers[t2].d

\* both Timers have emitted and closed, the one with the shorter duration
\* first, before the longer duration had passed
C20_Witness ==
    /\ stage = "Timer"
    /\ \A t \in TimerIds : timers[t].closed
    /\ timers[1].d < timers[2].d
    /\ Len(received) = 2
    /\ received[1].pos = 1
    /\ received[1].at >= timers[1].d
    /\ received[1].at < timers[2].d
    /\ received[2].at >= timers[2].d

\* ======================================= Timer, Interval and their options
\* context.Background().Done(): a nil channel, never ready
BackgroundDone == FALSE

\* The Done() of the context Timer's goroutine selects on.  Timer calls
\* prepareResources[int]() without handing its options on, so parseOption
\* sees none, c.ctx is nil and makeContext returns context.Background(): the
\* handle the caller gave with WithContext (ctxDone) is not looked at.
TimerCtxDone == BackgroundDone

\* `case <-ctx.Done(): return`, then the deferred close(out); never enabled,
\* and so no step of the runs below
timer_ctxDone(t) ==
    /\ timers[t].pc = "select"
    /\ TimerCtxDone
    /\ timers' = [timers EXCEPT ![t].pc = "done", ![t].closed = TRUE]
    /\ UNCHANGED <<start, buffer, d, now, timer, panicked, cancelAt, consumer, opts, stage, conf, n, source,
                   srcCloses, pulled, ctxDone, pc, i, count, cur, tasks, queue, cbk, out,
                   outClosed, received, sendOnClosed, calls>>

\* two Timers started with WithContext(ctx), and ctx may be cancelled at any
\* moment
NextTimerCtx ==
    \/ NextTimer
    \/ Cancel

SpecTimerCtx == InitTimer /\ [][NextTimerCtx]_vars

\* C21: a Timer whose handle, given through its options, has fired before d
\* had passed emits nothing and is never committed to its send; while its
\* goroutine still waits in the select, the goroutine is able to return and
\* close the output at once.
C21_TimerCancelledBeforeD ==
    stage = "Timer" =>
        \A t \in TimerIds :
            (ctxDone /\ cancelAt < timers[t].d) =>
                /\ EmittedBy(t) = {}
                /\ timers[t].pc # "send"
                /\ timers[t].pc = "select" => ENABLED timer_ctxDone(t)

\* ------------------------------------------------------------- Interval
\* The Done() of the context Interval's goroutine selects on: as in Timer,
\* prepareResources[int]() is called without the options.
IntervalCtxDone == BackgroundDone

\* `case <-ctx.Done(): return`, then the deferred ticker.Stop() and
\* close(out); never enabled, and so no step of the runs below
interval_ctxDone ==
    /\ stage = "Interval"
    /\ pc = "select"
    /\ IntervalCtxDone
    /\ pc' = "done"
    /\ outClosed' = TRUE
    /\ UNCHANGED <<start, buffer, timeVars, panicked, cancelAt, consumer, opts, stage, conf, n, source,
                   srcCloses, pulled, ctxDone, i, count, cur, tasks, queue, cbk, out,
                   received, sendOnClosed, calls>>

\* a unit of time passes; the ticker fires when its due time is reached
interval_clock ==
    /\ stage = "Interval"
    /\ pc # "done"
    /\ now < MaxTime
    /\ now' = now + 1
    /\ timer' = IF now + 1 = timer.next THEN TickerFires(timer, d) ELSE timer
    /\ UNCHANGED <<start, buffer, d, timers, panicked, cancelAt, consumer, opts, stage, conf, n, source,
                   srcCloses, pulled, ctxDone, pc, i, count, cur, tasks, queue, cbk, out,
                   outClosed, received, sendOnClosed, calls>>

\* `case <-ticker.C:` takes the waiting tick (pulled counts the ticks taken);
\* the goroutine is committed to `out <- trx.Ok(i)`
interval_tick ==
    /\ stage = "Interval"
    /\ pc = "select"
    /\ timer.pending
    /\ timer' = [timer EXCEPT !.pending = FALSE]
    /\ pulled' = pulled + 1
    /\ pc' = "send"
    /\ UNCHANGED <<start, buffer, d, now, timers, panicked, cancelAt, consumer, opts, stage, conf, n, source,
                   srcCloses, ctxDone, i, count, cur, tasks, queue, cbk, out, outClosed,
                   received, sendOnClosed, calls>>

\* a loop that forgets its i++
IntervalNext_stuck == i

\* the loop's `i++`
IntervalNext == IntAdd(i, 1)

\* `out <- trx.Ok(i)`, then `i++`
interval_send ==
    /\ stage = "Interval"
    /\ pc = "send"
    /\ Send(Emitted(Ok(i), "timer"))
    /\ i' = IntervalNext
    /\ pc' = "select"
    /\ UNCHANGED <<start, buffer, timeVars, panicked, cancelAt, consumer, opts, stage, conf, n, source,
                   srcCloses, pulled, ctxDone, count, cur, tasks, queue, cbk, outClosed,
                   sendOnClosed, calls>>

\* Interval(d, options...) was called: `ticker := time.NewTicker(d)`,
\* `i := 0`; the channel is unbuffered whatever the options say
InitInterval ==
    /\ stage = "Interval"
    /\ conf = [bufferSize |-> 0, poolSize |-> 1, serialize |-> FALSE]
    /\ d \in 1..MaxD
    /\ now = 0
    /\ timer = NewTicker(d)
    /\ timers = <<>>
    /\ i = 0
    /\ pc = "select"
    /\ n = 0
    /\ start = 0
    /\ buffer = <<>>
    /\ source = <<>>
    /\ srcCloses = TRUE
    /\ pulled = 0
    /\ ctxDone = FALSE
    /\ count = 0
    /\ cur = [pos |-> 0, index |-> 0, result |-> Ok(0)]
    /\ tasks = <<>>
    /\ queue = <<>>
    /\ cbk = 0
    /\ out = <<>>
    /\ outClosed = FALSE
    /\ received = <<>>
    /\ sendOnClosed = FALSE
    /\ calls = {}
    /\ panicked = "no"
    /\ consumer = ReadsAll
    /\ opts = <<>>
    /\ cancelAt = 0

\* Interval started with WithContext(ctx); ctx may be cancelled at any moment
NextInterval ==
    \/ interval_clock
    \/ interval_tick
    \/ interval_send
    \/ Cancel

SpecInterval == InitInterval /\ [][NextInterval]_vars

\* C22: what Interval has emitted is 0, 1, 2, ... in this order, each a
\* Success, with no gap and no repetition; there is one output for every
\* tick taken from the ticker (but the one the goroutine is about to send),
\* so that the k-th output comes no earlier than k periods after the start;
\* and while the handle has not fired the output is not closed.
C22_IntervalCounts ==
    stage = "Interval" =>
        /\ \A k \in 1..Len(delivered) :
               /\ delivered[k].res = Ok(k - 1)
               /\ delivered[k].pos = k
               /\ delivered[k].at >= k * d
        /\ i = Len(delivered)
        /\ pulled = Len(delivered) + (IF pc = "send" THEN 1 ELSE 0)
        /\ pulled * d <= now
        /\ ~ctxDone => ~outClosed

\* Interval has emitted 0 and 1 and waits for its next tick
C22_Witness ==
    /\ stage = "Interval"
    /\ ~ctxDone
    /\ Len(delivered) = 2
    /\ delivered[2].res = Ok(1)
    /\ pc = "select"
    /\ ~outClosed

\* C23: once the handle given to Interval through its options has fired, a
\* goroutine that waits in the select is able to return and close the output,
\* and a goroutine that has returned has closed it.
C23_IntervalCancelCloses ==
    stage = "Interval" =>
        (ctxDone =>
            /\ pc = "select" => ENABLED interval_ctxDone
            /\ pc = "done" => outClosed)

\* Interval as it is: its output is never closed, cancelled or not
IntervalNeverCloses == stage = "Interval" => (~outClosed /\ pc # "done")

\* Interval as it is: it emits after the handle has fired, a tick that fell
\* due after that moment included
IntervalEmitsAfterCancel ==
    /\ stage = "Interval"
    /\ ctxDone
    /\ \E k \in 1..Len(delivered) : delivered[k].at >= cancelAt + 2 * d

\* ================================================== FormSlice, FormChannel
\* For these two stages source holds plain values of T, not Results; the
\* stage wraps each of them.
SliceValues == {1, 2}

SliceSources == UNION {[1..len -> SliceValues] : len \in 0..MaxLen}

\* a stage that wraps what it is given as a Failure
FromValue_failure(v) == Err("source error")

\* trx.Ok(v)
FromValue(v) == Ok(v)

\* a loop that stops one element short
SliceContinues_skipsLast == pulled + 1 < Len(source)

\* `for _, v := range source` has a next element (pulled counts the
\* iterations that are over)
SliceContinues == pulled < Len(source)

\* the range is exhausted: the goroutine returns and the deferred close(out)
\* runs
fs_end ==
    /\ stage = "FormSlice"
    /\ pc = "loop"
    /\ ~SliceContinues
    /\ pc' = "done"
    /\ outClosed' = TRUE
    /\ UNCHANGED <<start, buffer, timeVars, panicked, cancelAt, consumer, opts, stage, conf, n, source,
                   srcCloses, pulled, ctxDone, i, count, cur, tasks, queue, cbk, out,
                   received, sendOnClosed, calls>>

\* `case <-ctx.Done(): return`
fs_ctxDone ==
    /\ stage = "FormSlice"
    /\ pc = "loop"
    /\ SliceContinues
    /\ ctxDone
    /\ pc' = "done"
    /\ outClosed' = TRUE
    /\ UNCHANGED <<start, buffer, timeVars, panicked, cancelAt, consumer, opts, stage, conf, n, source,
                   srcCloses, pulled, ctxDone, i, count, cur, tasks, queue, cbk, out,
                   received, sendOnClosed, calls>>

\* `default:` is taken when ctx.Done() is not ready; the goroutine is then
\* committed to `out <- trx.Ok(v)`
fs_default ==
    /\ stage = "FormSlice"
    /\ pc = "loop"
    /\ SliceContinues
    /\ ~ctxDone
    /\ cur' = [cur EXCEPT !.pos = pulled + 1]
    /\ pc' = "send"
    /\ UNCHANGED <<start, buffer, timeVars, panicked, cancelAt, consumer, opts, stage, conf, n, source,
                   srcCloses, pulled, ctxDone, i, count, tasks, queue, cbk, out, outClosed,
                   received, sendOnClosed, calls>>

\* `out <- trx.Ok(v)`, then the next iteration
fs_send ==
    /\ stage = "FormSlice"
    /\ pc = "send"
    /\ Send(Item(FromValue(source[cur.pos]), cur.pos))
    /\ pulled' = pulled + 1
    /\ pc' = "loop"
    /\ UNCHANGED <<start, buffer, timeVars, panicked, cancelAt, consumer, opts, stage, conf, n, source,
                   srcCloses, ctxDone, i, count, cur, tasks, queue, cbk, outClosed,
                   sendOnClosed, calls>>

\* FormSlice(source, options...) was called
InitFormSlice ==
    /\ stage = "FormSlice"
    /\ conf \in PlainConfigs
    /\ source \in SliceSources
    /\ srcCloses = TRUE
    /\ n = 0
    /\ start = 0
    /\ i = 0
    /\ pc = "loop"
    /\ pulled = 0
    /\ ctxDone = FALSE
    /\ count = 0
    /\ cur = [pos |-> 0, index |-> 0, result |-> Ok(0)]
    /\ tasks = <<>>
    /\ queue = <<>>
    /\ cbk = 0
    /\ out = <<>>
    /\ outClosed = FALSE
    /\ received = <<>>
    /\ sendOnClosed = FALSE
    /\ calls = {}
    /\ buffer = <<>>
    /\ InitUntimed

NextFormSlice ==
    \/ fs_end
    \/ fs_ctxDone
    \/ fs_default
    \/ fs_send
    \/ Recv
    \/ Cancel

SpecFormSlice == InitFormSlice /\ [][NextFormSlice]_vars

\* the Successes of the first k elements of the slice, in slice order
SliceExpected(k) == [p \in 1..k |-> Item(Ok(source[p]), p)]

\* C24: what FormSlice has emitted is at every moment the Successes of the
\* first elements of the slice, in slice order; when it has closed its output
\* without a cancellation there is one Success for every element (none for
\* the empty slice); and until it has closed, with the consumer reading, some
\* step of the stage or of the consumer is possible, the close itself once
\* the slice is exhausted.
C24_FormSliceEmitsAll ==
    stage = "FormSlice" =>
        /\ Len(delivered) <= Len(source)
        /\ delivered = SliceExpected(Len(delivered))
        /\ (outClosed /\ ~ctxDone) => delivered = SliceExpected(Len(source))
        /\ (pc = "loop" /\ pulled = Len(source)) => ENABLED fs_end
        /\ (~outClosed /\ ~ctxDone) => ENABLED (fs_end \/ fs_default \/ fs_send \/ Recv)
        /\ outClosed <=> pc = "done"

\* a slice of MaxLen elements, two of them equal, read to the close
C24_Witness ==
    /\ stage = "FormSlice"
    /\ ~ctxDone
    /\ outClosed
    /\ source = <<2, 1, 2>>
    /\ received = SliceExpected(3)

\* the empty slice: closed with nothing emitted
C24_WitnessEmpty ==
    /\ stage = "FormSlice"
    /\ ~ctxDone
    /\ outClosed
    /\ source = <<>>
    /\ delivered = <<>>

\* ------------------------------------------------------------ FormChannel
\* source is what the external channel will hand over, in the order of its
\* sends; srcCloses tells whether its owner closes it after that; n is
\* cap(source).
\* `opts := append([]Option{WithBufferSize(cap(source))}, options...)`:
\* the output has the capacity of the source unless the options name another
\* (given = -1: no WithBufferSize among the options, or a negative one)
FormChannelConfigs(capacity) ==
    {[bufferSize |-> IF given >= 0 THEN given ELSE capacity,
      poolSize |-> 1, serialize |-> FALSE] : given \in -1..MaxBufferSize}

\* a stage that never sees the close of its source
SourceClosed_never == FALSE

\* `v, ok := <-source` with !ok: the channel is closed and drained
SourceClosed == pulled = Len(source) /\ srcCloses

\* `case <-ctx.Done(): return`
fc_ctxDone ==
    /\ stage = "FormChannel"
    /\ pc = "select"
    /\ ctxDone
    /\ pc' = "done"
    /\ outClosed' = TRUE
    /\ UNCHANGED <<start, buffer, timeVars, panicked, cancelAt, consumer, opts, stage, conf, n, source,
                   srcCloses, pulled, ctxDone, i, count, cur, tasks, queue, cbk, out,
                   received, sendOnClosed, calls>>

\* `case v, ok := <-source:` with ok
fc_recv ==
    /\ stage = "FormChannel"
    /\ pc = "select"
    /\ pulled < Len(source)
    /\ pulled' = pulled + 1
    /\ cur' = [cur EXCEPT !.pos = pulled + 1]
    /\ pc' = "send"
    /\ UNCHANGED <<start, buffer, timeVars, panicked, cancelAt, consumer, opts, stage, conf, n, source,
                   srcCloses, ctxDone, i, count, tasks, queue, cbk, out, outClosed,
                   received, sendOnClosed, calls>>

\* `if !ok { return }`
fc_closed ==
    /\ stage = "FormChannel"
    /\ pc = "select"
    /\ SourceClosed
    /\ pc' = "done"
    /\ outClosed' = TRUE
    /\ UNCHANGED <<start, buffer, timeVars, panicked, cancelAt, consumer, opts, stage, conf, n, source,
                   srcCloses, pulled, ctxDone, i, count, cur, tasks, queue, cbk, out,
                   received, sendOnClosed, calls>>

\* `out <- trx.Ok(v)`
fc_send ==
    /\ stage = "FormChannel"
    /\ pc = "send"
    /\ Send(Item(FromValue(source[cur.pos]), cur.pos))
    /\ pc' = "select"
    /\ UNCHANGED <<start, buffer, timeVars, panicked, cancelAt, consumer, opts, stage, conf, n, source,
                   srcCloses, pulled, ctxDone, i, count, cur, tasks, queue, cbk, outClosed,
                   sendOnClosed, calls>>

\* FormChannel(source, options...) was called
InitFormChannel ==
    /\ stage = "FormChannel"
    /\ n \in 0..MaxBufferSize
    /\ conf \in FormChannelConfigs(n)
    /\ source \in SliceSources
    /\ srcCloses \in BOOLEAN
    /\ start = 0
    /\ i = 0
    /\ pc = "select"
    /\ pulled = 0
    /\ ctxDone = FALSE
    /\ count = 0
    /\ cur = [pos |-> 0, index |-> 0, result |-> Ok(0)]
    /\ tasks = <<>>
    /\ queue = <<>>
    /\ cbk = 0
    /\ out = <<>>
    /\ outClosed = FALSE
    /\ received = <<>>
    /\ sendOnClosed = FALSE
    /\ calls = {}
    /\ buffer = <<>>
    /\ InitUntimed

NextFormChannel ==
    \/ fc_ctxDone
    \/ fc_recv
    \/ fc_closed
    \/ fc_send
    \/ Recv
    \/ Cancel

SpecFormChannel == InitFormChannel /\ [][NextFormChannel]_vars

\* C25: what FormChannel has emitted is at every moment the Successes of the
\* items it has received, in the order it received them, each once, but for
\* the one it is about to send; nothing it emits is a Failure; it closes
\* only after the source has closed or the handle has fired, and with every
\* received item forwarded; and when it waits in its select with the source
\* closed and drained, or with the handle fired, it is able to close its
\* output, whatever the capacities of the two channels.
C25_FormChannelForwards ==
    stage = "FormChannel" =>
        /\ delivered = SliceExpected(Len(delivered))
        /\ \A k \in 1..Len(delivered) : IsOk(delivered[k].res)
        /\ Len(delivered) = pulled - (IF pc = "send" THEN 1 ELSE 0)
        /\ outClosed <=> pc = "done"
        /\ outClosed => (ctxDone \/ (srcCloses /\ pulled = Len(source)))
        /\ (pc = "select" /\ srcCloses /\ pulled = Len(source)) => ENABLED fc_closed
        /\ (pc = "select" /\ ctxDone) => ENABLED fc_ctxDone
        /\ (pc = "select" /\ pulled < Len(source)) => ENABLED fc_recv

\* a buffered source of MaxLen items, closed by its owner, forwarded to the
\* last and read to the close
C25_Witness ==
    /\ stage = "FormChannel"
    /\ ~ctxDone
    /\ n = 1
    /\ conf.bufferSize = 1
    /\ source = <<2, 1, 2>>
    /\ outClosed
    /\ received = SliceExpected(3)

\* an unbuffered source closed at once
C25_WitnessUnbuffered ==
    /\ stage = "FormChannel"
    /\ ~ctxDone
    /\ n = 0
    /\ conf.bufferSize = 0
    /\ source = <<>>
    /\ outClosed
    /\ delivered = <<>>

\* ===================================================== the pool's contract
\* a task that pool.wait has to wait for: queued for a worker, running on
\* one, or with its emission not yet released
Outstanding(t) == tasks[t].state \in {"queued", "run", "ready", "emit", "cb"}

\* C26: in every pool mode, the step in which pool.wait returns is taken only
\* when no submitted task is queued, running or waiting to emit, and, in
\* ordered mode, when the callbacker holds no callback and none is queued for
\* it; and in no state has a stage passed its wait with such a task left.
C26_DrainWaitsForTasks ==
    /\ [][(pc = "wait" /\ pc' = "done") =>
             /\ \A t \in 1..Len(tasks) : ~Outstanding(t)
             /\ makePool = "stream" => (queue = <<>> /\ cbk = 0)
             /\ tasks' = tasks]_vars
    /\ []((stage \in {"Map", "Filter"} /\ pc = "done") =>
             \A t \in 1..Len(tasks) : ~Outstanding(t))

\* ordered mode: the stage is in pool.wait, every worker has exited, and the
\* callbacker still holds a callback it has not released
C26_Witness ==
    /\ stage \in {"Map", "Filter"}
    /\ makePool = "stream"
    /\ pc = "wait"
    /\ NumBusy = 0
    /\ cbk # 0
    /\ tasks[cbk].state = "cb"

\* the tasks whose closure a worker is executing
Running == {t \in 1..Len(tasks) : tasks[t].state = "run"}

\* C27: with pool size N > 1, ordered or not, at most N tasks occupy a worker
\* and so at most N run their user callback at once; the step that hands a
\* submitted task to a worker is possible exactly when fewer than N workers
\* are occupied, and until it is taken the stage pulls nothing; and a stage
\* inside submit is never stranded: some goroutine can always step.
C27_AtMostNWorkers ==
    (stage \in {"Map", "Filter"} /\ conf.poolSize > 1) =>
        /\ Cardinality(Running) <= NumBusy
        /\ NumBusy <= conf.poolSize
        /\ (pc = "submit" /\ makePool = "pool") => (ENABLED submit_pool <=> WorkerFree)
        /\ pc = "go" => (ENABLED submit_stream_go <=> WorkerFree)
        /\ pc \in {"submit", "go"} => ~ENABLED (select_recv \/ select_closed)
        /\ pc \in {"submit", "go"} => ENABLED Next

\* N tasks are running and the stage is blocked in the submit of one more
C27_Witness ==
    /\ stage \in {"Map", "Filter"}
    /\ conf.poolSize > 1
    /\ Cardinality(Running) = conf.poolSize
    /\ pc \in {"submit", "go"}
    /\ ~ENABLED (submit_pool \/ submit_stream_go)

\* the user callback is due for task t: its element is a Success
CallsBack(t) == IsOk(tasks[t].result)

\* the user callback has been executed for task t
CalledFor(t) == \E c \in calls : c.pos = tasks[t].pos

\* C28: in ordered mode with pool size N > 1 the user callback of a task is
\* executed by the task's worker, side by side with the callbacks of the
\* other workers: a task whose worker has handed it over to the callbacker
\* has had its mapper or predicate called, and only its emission is left to
\* the callbacker.
C28_OrderedCallbacksOnWorkers ==
    (stage \in {"Map", "Filter"} /\ conf.poolSize > 1 /\ conf.serialize) =>
        \A t \in 1..Len(tasks) :
            (tasks[t].state \in {"ready", "cb"} /\ CallsBack(t)) => CalledFor(t)

\* op.Map in ordered mode: two mappers are running at once
MapTwoMappersRunning ==
    /\ stage = "Map" /\ makePool = "stream"
    /\ Cardinality({t \in Running : CallsBack(t)}) = 2

\* op.Map in ordered mode: a later task has finished and holds its emission
\* while an earlier one still runs
MapLaterTaskHoldsEmission ==
    /\ stage = "Map" /\ makePool = "stream"
    /\ \E t1, t2 \in 1..Len(tasks) :
           /\ t1 < t2
           /\ tasks[t1].state = "run"
           /\ tasks[t2].state = "ready"
           /\ TimesDelivered(tasks[t2].pos) = 0

\* Filter in ordered mode: no predicate is called while a worker runs, and
\* every call is made by the one callbacker
FilterPredicatesOnCallbacker ==
    [][(stage = "Filter" /\ makePool = "stream" /\ calls' # calls) =>
           (cbk # 0 /\ tasks[cbk].state = "ready" /\ tasks'[cbk].state \in {"cb", "done"})]_vars

\* C29: with pool size 1, whatever the serialize option: no task is handed
\* to another goroutine; pool.wait returns at once; when the stage is about
\* to pull, every element pulled so far has had its callback run and its
\* result, if one is owed, sent; while it works on an element this holds for
\* all the elements before it; and so what has been sent is in source order.
C29_InlineRunsOnCaller ==
    (stage \in {"Map", "Filter"} /\ conf.poolSize <= 1) =>
        /\ makePool = "inline"
        /\ tasks = <<>> /\ queue = <<>> /\ cbk = 0
        /\ pc = "wait" => ENABLED wait
        /\ pc \in {"select", "wait", "done"} =>
               /\ Positions(delivered) = OwedUpTo(pulled)
               /\ \A p \in 1..pulled : IsOk(source[p]) => \E c \in calls : c.pos = p
        /\ pc \in {"submit", "send"} =>
               /\ cur.pos = pulled
               /\ Positions(delivered) = OwedUpTo(pulled - 1)
        /\ \A k \in 1..Len(delivered) : delivered[k].res = Expected(delivered[k].pos)
        /\ \A k \in 1..(Len(delivered) - 1) : delivered[k].pos < delivered[k + 1].pos

\* pool size 1 with the serialize option: three elements went through the
\* stage one after the other and the output is closed
C29_Witness ==
    /\ stage \in {"Map", "Filter"}
    /\ conf.poolSize = 1 /\ conf.serialize
    /\ outClosed
    /\ Len(source) = 3
    /\ Len(delivered) >= 2
    /\ tasks = <<>>

\* ================================================ a user callback panics
\* pool.submit, inline: fn() panics on the stage's goroutine.  Nothing
\* recovers, so the deferred close(out) runs and the panic leaves the
\* goroutine: the program crashes.
inline_panic ==
    /\ pc = "submit"
    /\ makePool = "inline"
    /\ TaskPanics(cur.result)
    /\ calls' = calls \cup {[pos |-> cur.pos, value |-> cur.result.v, index |-> cur.index]}
    /\ panicked' = "crashed"
    /\ outClosed' = TRUE
    /\ pc' = "done"
    /\ UNCHANGED <<start, buffer, timeVars, cancelAt, consumer, opts, stage, conf, n, source, srcCloses,
                   pulled, ctxDone, i, count, cur, tasks, queue, cbk, out, received,
                   sendOnClosed>>

\* the closure given to Go panics on its worker.  conc catches the panic and
\* frees the worker; in a stream the task's channel gets an empty callback,
\* so that the callbacker does not wait for it.
worker_panic ==
    \E t \in 1..Len(tasks) :
        /\ tasks[t].state = "run"
        /\ RunsOnWorker
        /\ TaskPanics(tasks[t].result)
        /\ calls' = calls \cup {[pos |-> tasks[t].pos, value |-> tasks[t].result.v,
                                 index |-> tasks[t].index]}
        /\ tasks' = [tasks EXCEPT
               ![t].state = IF makePool = "stream" THEN "nocb" ELSE "done"]
        /\ panicked' = "caught"
        /\ UNCHANGED <<start, buffer, timeVars, cancelAt, consumer, opts, stage, conf, n, source, srcCloses,
                       pulled, ctxDone, pc, i, count, cur, queue, cbk, out, outClosed,
                       received, sendOnClosed>>

\* ordered: the callbacker receives the empty callback of a task that
\* panicked on its worker, and runs it
callbacker_skip ==
    /\ cbk # 0
    /\ tasks[cbk].state = "nocb"
    /\ tasks' = [tasks EXCEPT ![cbk].state = "done"]
    /\ cbk' = 0
    /\ UNCHANGED <<start, buffer, timeVars, panicked, cancelAt, consumer, opts, stage, conf, n, source,
                   srcCloses, pulled, ctxDone, pc, i, count, cur, queue, out, outClosed,
                   received, sendOnClosed, calls>>

\* ordered, with the whole task as the callback: the callback panics on the
\* callbacker, which catches the panic and goes on to the next entry
callbacker_panic ==
    /\ cbk # 0
    /\ tasks[cbk].state = "ready"
    /\ ~RunsOnWorker
    /\ TaskPanics(tasks[cbk].result)
    /\ calls' = calls \cup {[pos |-> tasks[cbk].pos, value |-> tasks[cbk].result.v,
                             index |-> tasks[cbk].index]}
    /\ tasks' = [tasks EXCEPT ![cbk].state = "done"]
    /\ cbk' = 0
    /\ panicked' = "caught"
    /\ UNCHANGED <<start, buffer, timeVars, cancelAt, consumer, opts, stage, conf, n, source, srcCloses,
                   pulled, ctxDone, pc, i, count, cur, queue, out, outClosed, received,
                   sendOnClosed>>

\* sources of Successes, some of which make the user callback panic
PanicSources == UNION {[1..len -> {Ok(2), Ok(4)}] : len \in 0..MaxLen}

\* Map or Filter was called with a callback that panics on some values
InitPanic ==
    /\ stage \in {"Map", "Filter"}
    /\ conf \in Configs
    /\ source \in PanicSources
    /\ n = 0
    /\ srcCloses = TRUE
    /\ start = 0
    /\ buffer = <<>>
    /\ pulled = 0
    /\ ctxDone = FALSE
    /\ pc = "select"
    /\ i = 0
    /\ count = 0
    /\ cur = [pos |-> 0, index |-> 0, result |-> Ok(0)]
    /\ tasks = <<>>
    /\ queue = <<>>
    /\ cbk = 0
    /\ out = <<>>
    /\ outClosed = FALSE
    /\ received = <<>>
    /\ sendOnClosed = FALSE
    /\ calls = {}
    /\ InitUntimed

NextPanic ==
    \/ Next
    \/ inline_panic
    \/ worker_panic
    \/ callbacker_skip
    \/ callbacker_panic

SpecPanic == InitPanic /\ [][NextPanic]_vars

\* C30: a panic of a user callback does not crash the program; every element
\* is still pulled and the task of every element whose callback does not
\* panic still runs and emits before the output is closed; pool.wait is not
\* stranded: once it is called, either something is still at work for it or
\* it can return; and the stage ends with its output closed.
C30_PanicIsContained ==
    stage \in {"Map", "Filter"} =>
        /\ panicked # "crashed"
        /\ outClosed =>
               /\ pulled = Len(source)
               /\ \A p \in 1..Len(source) :
                      ~TaskPanics(source[p]) => TimesDelivered(p) = 1
        /\ pc = "wait" => ENABLED NextPanic
        /\ pc = "done" => outClosed

\* the pool as it is: the tasks of the other elements run and emit, and
\* pool.wait is never stranded
PanicLeavesOthersRunning ==
    (stage \in {"Map", "Filter"} /\ conf.poolSize > 1) =>
        /\ (outClosed /\ pulled = Len(source)) =>
               \A p \in 1..Len(source) : ~TaskPanics(source[p]) => TimesDelivered(p) = 1
        /\ pc = "wait" => ENABLED NextPanic
        /\ pc = "done" => (outClosed /\ pulled = Len(source))

\* the stage as it is: a panic of a callback always ends in a crash
PanicAlwaysCrashes ==
    (stage \in {"Map", "Filter"} /\ pc = "done") =>
        (panicked = "crashed" <=> \E p \in 1..pulled : TaskPanics(source[p]))

\* ===================================== a stage with a Take reading from it
\* The output of the stage is the source of a downstream Take(out, n): the
\* consumer is Take's goroutine, received is what it has received from the
\* stage, consumer.sent what it has sent on (its own reader reads until
\* close).
\* Take's `for count < n` is false: the goroutine returns, its deferred
\* close runs, and nobody receives from the stage's output any more
down_limit ==
    /\ consumer.mode = "take"
    /\ ~consumer.closed
    /\ InHand = 0
    /\ ~(consumer.count < consumer.n)
    /\ consumer' = [consumer EXCEPT !.closed = TRUE]
    /\ UNCHANGED <<start, buffer, timeVars, panicked, cancelAt, opts, stage, conf, n,
                   source, srcCloses, pulled, ctxDone, pc, i, count, cur, tasks, queue,
                   cbk, out, outClosed, received, sendOnClosed, calls>>

\* Take's `case <-ctx.Done(): return`
down_ctxDone ==
    /\ consumer.mode = "take"
    /\ ~consumer.closed
    /\ InHand = 0
    /\ consumer.count < consumer.n
    /\ ctxDone
    /\ consumer' = [consumer EXCEPT !.closed = TRUE]
    /\ UNCHANGED <<start, buffer, timeVars, panicked, cancelAt, opts, stage, conf, n,
                   source, srcCloses, pulled, ctxDone, pc, i, count, cur, tasks, queue,
                   cbk, out, outClosed, received, sendOnClosed, calls>>

\* Take's `v, ok := <-source` with !ok: the stage has closed its output and
\* the channel is drained
down_closed ==
    /\ consumer.mode = "take"
    /\ ~consumer.closed
    /\ InHand = 0
    /\ consumer.count < consumer.n
    /\ outClosed /\ out = <<>>
    /\ consumer' = [consumer EXCEPT !.closed = TRUE]
    /\ UNCHANGED <<start, buffer, timeVars, panicked, cancelAt, opts, stage, conf, n,
                   source, srcCloses, pulled, ctxDone, pc, i, count, cur, tasks, queue,
                   cbk, out, outClosed, received, sendOnClosed, calls>>

\* Take sends on what it has received: a Failure and then it returns, or a
\* Success and then `count++`
down_send ==
    /\ consumer.mode = "take"
    /\ ~consumer.closed
    /\ InHand = 1
    /\ LET x == received[Len(received)] IN
       consumer' = [consumer EXCEPT
           !.sent = Append(@, x),
           !.count = IF IsErr(x.res) THEN @ ELSE @ + 1,
           !.closed = IsErr(x.res)]
    /\ UNCHANGED <<start, buffer, timeVars, panicked, cancelAt, opts, stage, conf, n,
                   source, srcCloses, pulled, ctxDone, pc, i, count, cur, tasks, queue,
                   cbk, out, outClosed, received, sendOnClosed, calls>>

\* the downstream Takes of the runs
TakeConsumers ==
    {[mode |-> "take", n |-> k, count |-> 0, sent |-> <<>>, closed |-> FALSE] :
         k \in 0..MaxTake}

\* Take(Range(start, count, options...), n, options...) was called
InitTakeOfRange ==
    /\ stage = "Range"
    /\ conf \in PlainConfigs
    /\ start \in 0..1
    /\ n \in 0..MaxLen
    /\ i = start
    /\ pc = "loop"
    /\ consumer \in TakeConsumers
    /\ opts = <<>>
    /\ source = <<>>
    /\ srcCloses = TRUE
    /\ pulled = 0
    /\ ctxDone = FALSE
    /\ count = 0
    /\ cur = [pos |-> 0, index |-> 0, result |-> Ok(0)]
    /\ tasks = <<>>
    /\ queue = <<>>
    /\ cbk = 0
    /\ out = <<>>
    /\ outClosed = FALSE
    /\ received = <<>>
    /\ sendOnClosed = FALSE
    /\ calls = {}
    /\ buffer = <<>>
    /\ d = 0
    /\ now = 0
    /\ timer = [next |-> 0, pending |-> FALSE]
    /\ timers = <<>>
    /\ panicked = "no"
    /\ cancelAt = 0

\* a step of Range's goroutine
RangeStep ==
    \/ range_end
    \/ range_ctxDone
    \/ range_default
    \/ range_send

NextTakeOfRange ==
    \/ RangeStep
    \/ Recv
    \/ Cancel
    \/ down_limit
    \/ down_ctxDone
    \/ down_closed
    \/ down_send

SpecTakeOfRange == InitTakeOfRange /\ [][NextTakeOfRange]_vars

\* C31: once a downstream Take has closed its output, the stage that feeds
\* it has terminated or is able to take a step towards its end: it is not
\* left blocked on a send to the output nobody reads.
C31_NoLeakAfterTake ==
    (stage = "Range" /\ consumer.mode = "take" /\ consumer.closed) =>
        (outClosed \/ ENABLED RangeStep)

\* the stage blocked on its send after the downstream Take has returned
LeakedSend ==
    /\ stage = "Range"
    /\ consumer.mode = "take" /\ consumer.closed
    /\ pc = "send"
    /\ ~ENABLED RangeStep

\* the chain as it is: a stage so blocked stays so for ever, whether the
\* handle fires or not
LeakIsForever == [][LeakedSend => LeakedSend']_vars

\* ------------------------------- BufferWithCount with a Take reading from it
\* Take(BufferWithCount(source, count, options...), n, options...) was
\* called, both with the same cancellation handle; or BufferWithCount alone,
\* read until close
InitBufferStalled ==
    /\ stage = "BufferWithCount"
    /\ conf \in PlainConfigs
    /\ n \in 1..MaxLen
    /\ source \in TimedSources
    /\ srcCloses = TRUE
    /\ consumer \in TakeConsumers \cup {ReadsAll}
    /\ opts = <<>>
    /\ buffer = <<>>
    /\ pc = "select"
    /\ pulled = 0
    /\ ctxDone = FALSE
    /\ start = 0
    /\ i = 0
    /\ count = 0
    /\ cur = [pos |-> 0, index |-> 0, result |-> Ok(0)]
    /\ tasks = <<>>
    /\ queue = <<>>
    /\ cbk = 0
    /\ out = <<>>
    /\ outClosed = FALSE
    /\ received = <<>>
    /\ sendOnClosed = FALSE
    /\ calls = {}
    /\ d = 0
    /\ now = 0
    /\ timer = [next |-> 0, pending |-> FALSE]
    /\ timers = <<>>
    /\ panicked = "no"
    /\ cancelAt = 0

\* a step of BufferWithCount's goroutine
BufferStep ==
    \/ bwc_ctxDone
    \/ bwc_closed
    \/ bwc_recv
    \/ bwc_sendErr
    \/ bwc_sendBatch
    \/ bwc_final

NextBufferStalled ==
    \/ NextBufferWithCount
    \/ down_limit
    \/ down_ctxDone
    \/ down_closed
    \/ down_send

SpecBufferStalled == InitBufferStalled /\ [][NextBufferStalled]_vars

\* C32: once the handle has fired, a stage that has not closed its output
\* is able to take a step, wherever it waits: in its select, or in a send to
\* a consumer that is not reading.
C32_CancelReachesEverySuspension ==
    (stage = "BufferWithCount" /\ ctxDone /\ ~outClosed) => ENABLED BufferStep

\* the stage blocked in a send after the handle has fired, its consumer gone
CancelledAndBlocked ==
    /\ stage = "BufferWithCount"
    /\ ctxDone
    /\ ~outClosed
    /\ pc \in {"sendErr", "sendBatch", "final"}
    /\ consumer.closed
    /\ ~ENABLED BufferStep

\* the stage as it is: blocked so, it stays so for ever
CancelledAndBlockedForEver == [][CancelledAndBlocked => CancelledAndBlocked']_vars

\* the stage as it is: with a consumer that reads until close, the handle
\* does reach it
CancelReachesWhileRead ==
    (stage = "BufferWithCount" /\ consumer.mode = "reads" /\ ctxDone /\ ~outClosed) =>
        ENABLED (BufferStep \/ Recv)

\* ==================================================== every stage, one run
\* One stage per behaviour, any of those above (the Timers apart, whose
\* state is their own), with the cancellation handle firing at any moment
\* and a consumer that reads until close.
InitEveryCtx ==
    \/ Init
    \/ InitTake
    \/ InitRange
    \/ InitFormSlice
    \/ InitFormChannel
    \/ InitInterval
    \/ InitBufferWithCount
    \/ InitTimed

NextEveryCtx ==
    \/ NextCtx
    \/ NextTake
    \/ NextRange
    \/ NextFormSlice
    \/ NextFormChannel
    \/ NextInterval
    \/ NextBufferWithCount
    \/ NextTimedCtx

SpecEveryCtx == InitEveryCtx /\ [][NextEveryCtx]_vars

\* the branch `case <-ctx.Done(): return` of the stage that runs
CtxDoneStep ==
    \/ select_ctxDone
    \/ take_ctxDone
    \/ range_ctxDone
    \/ fs_ctxDone
    \/ fc_ctxDone
    \/ interval_ctxDone
    \/ bwc_ctxDone
    \/ bwt_ctxDone
    \/ btc_ctxDone

\* the stage's loop ends without a look at the handle: the limit of Take or
\* the end of Range's and FormSlice's loop is reached
LoopEndStep ==
    \/ take_limit
    \/ range_end
    \/ fs_end

\* the stage's goroutine is at the head of its loop
AtLoopHead == pc \in {"select", "loop"}

\* the output is closed by the return of the stage's goroutine, once, and
\* from then on it stays closed and nothing more is sent on it
ClosedAtMostOnce ==
    /\ [][outClosed => (outClosed' /\ delivered' = delivered)]_vars
    /\ [][(~outClosed /\ outClosed') => (pc # "done" /\ pc' = "done")]_vars
    /\ [](pc = "done" <=> outClosed)

\* C33: every stage closes its output exactly once on every path: the close
\* is made by the return of the stage's goroutine, which returns once; the
\* output then stays closed and nothing more is sent on it; and a stage that
\* is at the head of its loop when the handle has fired is able to return
\* and close.
C33_ClosedExactlyOnce ==
    /\ ClosedAtMostOnce
    /\ []((ctxDone /\ ~outClosed /\ AtLoopHead) => ENABLED (CtxDoneStep \/ LoopEndStep))

\* every stage but Interval: the path of the cancellation ends in the close
ClosedOnCancelButInterval ==
    (stage # "Interval" /\ ctxDone /\ ~outClosed /\ AtLoopHead) =>
        ENABLED (CtxDoneStep \/ LoopEndStep)

\* --------------------------- every stage on a finite source, not cancelled
\* the sources of these runs are one element shorter than the longest
ShortLen == MaxLen - 1

\* Map or Filter, in every pool mode, read until close or feeding a Take
InitPoolChain ==
    /\ stage \in {"Map", "Filter"}
    /\ conf \in Configs
    /\ source \in {s \in Sources(stage) : Len(s) <= ShortLen}
    /\ srcCloses = TRUE
    /\ consumer \in TakeConsumers \cup {ReadsAll}
    /\ opts = <<>>
    /\ n = 0
    /\ start = 0
    /\ buffer = <<>>
    /\ d = 0
    /\ now = 0
    /\ timer = [next |-> 0, pending |-> FALSE]
    /\ timers = <<>>
    /\ panicked = "no"
    /\ cancelAt = 0
    /\ InitCommon

InitEvery ==
    \/ InitPoolChain
    \/ InitTake /\ srcCloses /\ Len(source) <= ShortLen
    \/ InitRange
    \/ InitFormSlice
    \/ InitFormChannel /\ srcCloses
    \/ InitBufferWithCount /\ Len(source) <= ShortLen
    \/ InitTimed /\ Len(source) <= ShortLen

\* the steps of the stages and of their consumers when no handle fires
NextEvery ==
    \/ Next
    \/ take_limit \/ take_closed \/ take_recv \/ take_send
    \/ range_end \/ range_default \/ range_send
    \/ fs_end \/ fs_default \/ fs_send
    \/ fc_recv \/ fc_closed \/ fc_send
    \/ bwc_closed \/ bwc_recv \/ bwc_sendErr \/ bwc_sendBatch \/ bwc_final
    \/ NextTimed
    \/ down_limit \/ down_closed \/ down_send

SpecEvery == InitEvery /\ [][NextEvery]_vars

\* the output the final consumer reads is closed: that of the downstream
\* Take when there is one, and else that of the stage
FinalClosed == IF consumer.mode = "take" THEN consumer.closed ELSE outClosed

\* the downstream Take, when there is one, asks for more than the source has
TakeBeyondSource == consumer.mode = "take" => consumer.n > Len(source)

BufferOptions == {[kind |-> "WithBufferSize", size |-> s] : s \in -1..MaxBufferSize}

PoolOptions == {[kind |-> "WithPoolSize", size |-> s] : s \in -1..MaxPoolSize}

SerializeOptions == {[kind |-> "WithSerialize", size |-> 0]}

Options == BufferOptions \cup PoolOptions \cup SerializeOptions

OptionLists == UNION {[1..len -> Options] : len \in 0..MaxLen}

\* defaultConfig
defaultConfig == [bufferSize |-> 0, poolSize |-> 1, serialize |-> FALSE]

\* WithBufferSize(size) applied to c
WithBufferSize(size, c) == IF size >= 0 THEN [c EXCEPT !.bufferSize = size] ELSE c

\* a WithPoolSize that takes 0 for a size
WithPoolSize_acceptsZero(size, c) == IF size >= 0 THEN [c EXCEPT !.poolSize = size] ELSE c

\* WithPoolSize(size) applied to c
WithPoolSize(size, c) == IF size > 0 THEN [c EXCEPT !.poolSize = size] ELSE c

\* WithSerialize() applied to c
WithSerialize(c) == [c EXCEPT !.serialize = TRUE]

\* opt(c)
ApplyOption(opt, c) ==
    CASE opt.kind = "WithBufferSize" -> WithBufferSize(opt.size, c)
      [] opt.kind = "WithPoolSize"   -> WithPoolSize(opt.size, c)
      [] opt.kind = "WithSerialize"  -> WithSerialize(c)

\* parseOption: `for _, opt := range opts { opt(c) }`, one option
parse_apply ==
    /\ stage \in {"parseOption", "FormChannelOptions"}
    /\ pc = "parse"
    /\ opts # <<>>
    /\ conf' = ApplyOption(Head(opts), conf)
    /\ opts' = Tail(opts)
    /\ UNCHANGED <<start, buffer, timeVars, panicked, cancelAt, consumer, stage, n, source,
                   srcCloses, pulled, ctxDone, pc, i, count, cur, tasks, queue, cbk, out,
                   outClosed, received, sendOnClosed, calls>>

\* parseOption: `return c`
parse_return ==
    /\ stage \in {"parseOption", "FormChannelOptions"}
    /\ pc = "parse"
    /\ opts = <<>>
    /\ pc' = "done"
    /\ UNCHANGED <<start, buffer, timeVars, panicked, cancelAt, consumer, opts, stage, conf,
                   n, source, srcCloses, pulled, ctxDone, i, count, cur, tasks, queue, cbk,
                   out, outClosed, received, sendOnClosed, calls>>

\* parseOption(options...) was called, `c := defaultConfig()` has run; or
\* FormChannel was called on a source of capacity n and calls parseOption
\* with `append([]Option{WithBufferSize(cap(source))}, options...)`
InitOptions ==
    /\ stage \in {"parseOption", "FormChannelOptions"}
    /\ source \in OptionLists
    /\ n \in 0..MaxBufferSize
    /\ stage = "parseOption" => n = 0
    /\ opts = IF stage = "FormChannelOptions"
              THEN <<[kind |-> "WithBufferSize", size |-> n]>> \o source
              ELSE source
    /\ conf = defaultConfig
    /\ pc = "parse"
    /\ consumer = ReadsAll
    /\ srcCloses = TRUE
    /\ start = 0
    /\ buffer = <<>>
    /\ pulled = 0
    /\ ctxDone = FALSE
    /\ i = 0
    /\ count = 0
    /\ cur = [pos |-> 0, index |-> 0, result |-> Ok(0)]
    /\ tasks = <<>>
    /\ queue = <<>>
    /\ cbk = 0
    /\ out = <<>>
    /\ outClosed = FALSE
    /\ received = <<>>
    /\ sendOnClosed = FALSE
    /\ calls = {}
    /\ d = 0
    /\ now = 0
    /\ timer = [next |-> 0, pending |-> FALSE]
    /\ timers = <<>>
    /\ panicked = "no"
    /\ cancelAt = 0

NextOptions ==
    \/ parse_apply
    \/ parse_return

SpecOptions == InitOptions /\ [][NextOptions]_vars

\* the places of the caller's options that set `kind` to a size of at least
\* `least`
ValidAt(kind, least) ==
    {k \in 1..Len(source) : source[k].kind = kind /\ source[k].size >= least}

\* the size of the last such option, or `otherwise` when there is none
LastValid(kind, least, otherwise) ==
    IF ValidAt(kind, least) = {} THEN otherwise
    ELSE source[Max(ValidAt(kind, least))].size

\* C35: at every moment of parseOption the configuration has a buffer
\* capacity of at least 0 and a pool size of at least 1; no option makes it
\* fail; the configuration it returns has, for each of the two sizes, the
\* value of the last valid option for it, or the default (0, 1) when there is
\* none; and for FormChannel the capacity is that of the last valid
\* WithBufferSize of the caller, or cap(source) when there is none, as
\* FormChannel takes it.
C35_OptionsValidated ==
    stage \in {"parseOption", "FormChannelOptions"} =>
        /\ conf.bufferSize >= 0
        /\ conf.poolSize >= 1
        /\ pc = "parse" => ENABLED NextOptions
        /\ pc = "done" =>
               /\ conf.poolSize = LastValid("WithPoolSize", 1, 1)
               /\ conf.serialize <=> (\E k \in 1..Len(source) : source[k].kind = "WithSerialize")
               /\ stage = "parseOption" =>
                      conf.bufferSize = LastValid("WithBufferSize", 0, 0)
               /\ stage = "FormChannelOptions" =>
                      /\ conf.bufferSize = LastValid("WithBufferSize", 0, n)
                      /\ [bufferSize |-> conf.bufferSize, poolSize |-> 1,
                          serialize |-> FALSE] \in FormChannelConfigs(n)

\* parseOption has returned after a valid capacity, an invalid one and an
\* invalid pool size
C35_Witness ==
    /\ stage = "parseOption"
    /\ pc = "done"
    /\ source = <<[kind |-> "WithBufferSize", size |-> 1],
                  [kind |-> "WithBufferSize", size |-> -1],
                  [kind |-> "WithPoolSize", size |-> 0]>>
    /\ conf = [bufferSize |-> 1, poolSize |-> 1, serialize |-> FALSE]

\* FormChannel on a source of capacity 1 with an invalid WithBufferSize
C35_WitnessFormChannel ==
    /\ stage = "FormChannelOptions"
    /\ pc = "done"
    /\ n = 1
    /\ source = <<[kind |-> "WithBufferSize", size |-> -1]>>
    /\ conf.bufferSize = 1

\* ---------------------------------------------------------------------------
\* The three buffering operators side by side, on a context nobody cancels
\* ---------------------------------------------------------------------------

InitBuffers == InitBufferWithCount \/ InitTimed

NextBuffers ==
    \/ bwc_closed
    \/ bwc_recv
    \/ bwc_sendErr
    \/ bwc_sendBatch
    \/ bwc_final
    \/ NextTimed

SpecBuffers == InitBuffers /\ [][NextBuffers]_vars

Buffering == stage \in {"BufferWithCount", "BufferWithTime", "BufferWithTimeOrCount"}

\* the values appended to `buffer` that no send has taken yet; the send after
\* the loop leaves the slice as it is, the goroutine returns right after it
Pending == IF pc = "done" THEN <<>> ELSE buffer

\* C36: without Failure and without cancellation, BufferWithCount,
\* BufferWithTime and BufferWithTimeOrCount lose nothing and keep the order:
\* every item sent is a Success batch, the batches sent so far followed by the
\* values still buffered are exactly the values pulled from the source, and
\* once the output is closed the concatenation of the batches is the whole
\* source, each value in exactly one batch.
C36_BuffersLossless ==
    (Buffering /\ NoFailure /\ ~ctxDone) =>
        /\ \A j \in 1..Len(delivered) : delivered[j].res.err = "nil"
        /\ Flatten(delivered) \o Pending = SourceValues(pulled)
        /\ outClosed => Flatten(delivered) = SourceValues(Len(source))

\* a closed run of a timed operator on three values in which the timer has
\* flushed one batch and the close of the source the last one
C36_Witness ==
    /\ stage = "BufferWithTime"
    /\ NoFailure
    /\ ~ctxDone
    /\ outClosed
    /\ Len(source) = MaxLen
    /\ SentFor("timer") # {}
    /\ SentFor("close") # {}
    /\ Flatten(delivered) = SourceValues(MaxLen)

\* the same for the count-only operator: two batches, the last one partial
C36_WitnessCount ==
    /\ stage = "BufferWithCount"
    /\ NoFailure
    /\ outClosed
    /\ n = 2
    /\ Len(source) = MaxLen
    /\ Len(delivered) = 2

\* the three buffering operators on a context that may be cancelled at any
\* moment
NextBuffersCtx == NextBufferWithCount \/ NextTimedCtx

SpecBuffersCtx == InitBuffers /\ [][NextBuffersCtx]_vars

\* the loop is left for `return` straight from the select: only the
\* `case <-ctx.Done()` branch does that, the close of the source goes through
\* the send after the loop and a Failure through the send of the Failure
ReturnsFromSelect == pc = "select" /\ pc' = "done"

\* the output was closed with values still in `buffer`, and neither the close
\* of the source nor a Failure ended the run
ClosedOnPartialBatch ==
    /\ Buffering
    /\ outClosed
    /\ buffer # <<>>
    /\ SentFor("close") = {}
    /\ SentFor("failure") = {}

\* C37: on cancellation a buffering operator closes without emitting the
\* partial batch: the step that services the cancellation closes the output
\* and delivers nothing, the values collected so far stay in `buffer`, and from
\* then on they are in no batch that was or will be delivered, the batches
\* delivered being exactly the pulled values before them (the close of the
\* source, in contrast, sends the partial batch before it closes).
C37_CancelDropsPartialBatch ==
    /\ [][(Buffering /\ ReturnsFromSelect) =>
              /\ ctxDone
              /\ outClosed'
              /\ delivered' = delivered
              /\ buffer' = buffer]_vars
    /\ [](ClosedOnPartialBatch =>
              /\ ctxDone
              /\ pc = "done"
              /\ Flatten(delivered) \o buffer = SourceValues(pulled))
    /\ [][(Buffering /\ outClosed) => received' \o out' = delivered]_vars

\* a timed operator cancelled with one value collected: closed, the value in
\* no batch
C37_Witness ==
    /\ ClosedOnPartialBatch
    /\ stage = "BufferWithTimeOrCount"
    /\ ctxDone
    /\ Len(buffer) = 1
    /\ pulled = 2
    /\ Len(delivered) = 1

\* the count-only operator cancelled with a partial batch of two
C37_WitnessCount ==
    /\ ClosedOnPartialBatch
    /\ stage = "BufferWithCount"
    /\ Len(buffer) = 2
    /\ delivered = <<>>

\* ---------------------------------------------------------------------------
\* Take called with any n, negative ones included
\* ---------------------------------------------------------------------------

\* Take(source, n, options...) was called; n is an int the code does not check
InitTakeAny ==
    /\ stage = "Take"
    /\ conf \in PlainConfigs
    /\ n \in (-1)..MaxTake
    /\ srcCloses \in BOOLEAN
    /\ start = 0
    /\ buffer = <<>>
    /\ InitUntimed
    /\ InitCommon

SpecTakeAny == InitTakeAny /\ [][NextTake]_vars

\* C38: Take never over-consumes: it pulls at most n elements from its source,
\* at most k + 1 when the element at (zero-based) position k is a Failure, and
\* never more than one beyond what it has handed on; called with n <= 0 it
\* pulls nothing, sends nothing, and the only step its goroutine can take is
\* the one that closes the output.
C38_TakeNeverOverConsumes ==
    stage = "Take" =>
        /\ n >= 0 => pulled <= n
        /\ ~NoFailure => pulled <= FirstFailure
        /\ pulled <= Len(delivered) + 1
        /\ n <= 0 =>
               /\ pulled = 0
               /\ delivered = <<>>
               /\ pc \in {"select", "done"}
               /\ pc = "select" =>
                      /\ ENABLED take_limit
                      /\ ~ENABLED (take_recv \/ take_closed \/ take_ctxDone \/ take_send)
               /\ pc = "done" => outClosed

\* Take has closed after pulling exactly n = 2 of three elements that a
\* source still held open offers
C38_Witness ==
    /\ stage = "Take"
    /\ n = 2
    /\ Len(source) = MaxLen
    /\ ~srcCloses
    /\ NoFailure
    /\ outClosed
    /\ pulled = 2

\* Take has closed after the Failure at position 1 of three elements, n = 3:
\* two pulled
C38_WitnessFailure ==
    /\ stage = "Take"
    /\ n = MaxTake
    /\ Len(source) = MaxLen
    /\ FirstFailure = 2
    /\ outClosed
    /\ pulled = 2
    /\ Len(delivered) = 2

\* Take called with a negative n has closed a source that offers elements
C38_WitnessNegative ==
    /\ stage = "Take"
    /\ n < 0
    /\ source # <<>>
    /\ outClosed
    /\ pulled = 0

\* ---------------------------------------------------------------------------
\* Range and FormSlice side by side, on a context that may be cancelled
\* ---------------------------------------------------------------------------

InitSources == InitRange \/ InitFormSlice

NextSources == NextRange \/ NextFormSlice

SpecSources == InitSources /\ [][NextSources]_vars

\* the goroutine has taken `default:` and is at `out <- trx.Ok(...)`
SendInProgress == pc = "send"

C39_WitnessClosed ==
    /\ stage = "FormSlice"
    /\ ctxDone
    /\ outClosed
    /\ SliceContinues
    /\ Len(delivered) = 1

====
